---- MODULE Spec2Model ----
(***************************************************************************)
(* Model of ruskcov: the injected agent (inject/src/lib.rs,                *)
(* inject/src/span.rs), the shared wire types (inject-types/src/lib.rs),   *)
(* the controller (ruskcov/src/main.rs) and its process model              *)
(* (ruskcov/src/process.rs).                                               *)
(*                                                                         *)
(* The specifications share the variables:                                 *)
(*   SpecSpan     Span::new / Span::extend under itertools' coalesce, on   *)
(*                sorted address lists (the domain of span.rs's proptests);*)
(*   SpecPatch    set_breakpoints on a memory buffer with page             *)
(*                protections, driven by an arbitrary SetBreakpointsReq;   *)
(*   SpecProto    the dialog between send_phdrs and try_main's accept loop;*)
(*   SpecAgent    one send_phdrs call served by a peer that may send any   *)
(*                requests, set_breakpoints included;                      *)
(*   SpecMain     main and try_main from the first startup step, with the  *)
(*                tracee's exit and the wait thread;                       *)
(*   SpecDebug    load_debug over the files it may find;                   *)
(*   SpecProcess  Process::new, new_thread and exec;                       *)
(*   SpecExtend   Span::extend on two spans of any origin;                 *)
(*   SpecUnits    Context::from_dwarf's unit ranges and find_unit          *)
(*                (ruskcov/src/symtab.rs);                                 *)
(*   SpecLines    get_breakpoints over the units of one object;            *)
(*   SpecRace     set_breakpoints on two threads of one tracee.            *)
(***************************************************************************)
EXTENDS Integers, Sequences, FiniteSets, TLC

VARIABLES
    \* ---- span.rs: the coalesce adaptor over map(Span::new)
    input,      \* the sorted Vec<usize> handed to into_iter()
    iter,       \* what the underlying iterator has not yet yielded
    last,       \* coalesce's held item: <<>> (None) or <<span>> (Some)
    out,        \* the spans collected so far
    spanPc,     \* "run" | "done"
    \* ---- lib.rs: set_breakpoints
    breakpoints,  \* the request's address vector, as received
    spans,        \* spans the for loop has not yet taken
    cur,          \* the span the loop body is in: <<>> or <<span>>
    todo,         \* addresses of cur the inner loop has not yet patched
    res,          \* Vec<(usize, BreakpointInst)> built so far
    mem,          \* tracee memory: address -> byte
    mem0,         \* the memory as it was when set_breakpoints was called
    prot,         \* page start -> "rx" | "w"
    patchPc,      \* "idle" | "entry" | "loop" | "write" | "returned" | "segv"
    \* ---- the tracee: processes and the threads that run send_phdrs
    envSet,     \* RUSKCOV_INJECT_SOCK is set in the tracee's environment
    loaded,     \* pid -> paths of the objects the dynamic linker has loaded
    nCalls,     \* send_phdrs calls made so far; call c uses connection c
    aPc,        \* call -> where that thread is in dlopen / send_phdrs
    aPid,       \* call -> pid of the process making it
    aBuf,       \* call -> sock_wr's BufWriter: serialized, not yet flushed
    aRead,      \* call -> messages deserialized from sock_rd so far
    aClosed,    \* call -> the tracee's end of the connection is closed
    aHist,      \* call -> how the call came about and what it met (history)
    procState,  \* pid -> "none" | "running" | "dead" | "exited"
    \* ---- the socket
    pending,    \* connections made and not yet accepted, in order
    a2c,        \* connection -> messages flushed by the agent, unread
    c2a,        \* connection -> messages flushed by the controller, unread
    wire,       \* connection -> every message put on it, in order
    \* ---- main.rs: try_main's accept loop
    cPc,        \* where the main thread is: a startup step ("tempdir" ..
                \* "seize"), "accept" | "decode" | "serialize" | "flush", or
                \* ended: "panic" | "exited"; "peer" when another program listens
    cConn,      \* the connection being served (0: none)
    cBuf,       \* writer's BufWriter: serialized, not yet flushed
    objseen,    \* HashSet<(u32, PathBuf)>
    parsed,     \* the objects get_breakpoints was called for, in order
    decoded,    \* connections whose snapshot try_main has decoded
    \* ---- main.rs: main, try_main's startup and the wait thread
    supPc,      \* the thread around wait::wait(): "none" | "wait" | "panicked"
    tracees,    \* State.tracees: HashSet<u32>
    supSeen,    \* the wait statuses the thread has received, in order
    exitCode,   \* the controller's exit status (-1: still running)
    diag,       \* what main reported on stderr: <<>> or <<context>>
    \* ---- main.rs: load_debug
    dbgIn,      \* the files load_debug finds: the object and the candidates
    dbgOut,     \* <<>> or <<result>>: Ok with the sections used, or Err
    \* ---- process.rs
    procs,      \* the Process values made so far, in order of creation
    heap,       \* Arc<AddressSpace> allocations: id -> AddressSpace
    procHist,   \* for each Process: how it was made (history)
    \* ---- span.rs: Span::extend called on its own
    extSelf,    \* <<>> or <<self>>
    extOther,   \* <<>> or <<other>>
    extRes,     \* <<>> or <<the Result>>
    \* ---- symtab.rs: Context::from_dwarf, find_unit
    dwRanges,   \* the (range, unit_id) pairs the units' range lists yield
    unit_ranges,\* Context.unit_ranges
    ctxPc,      \* "none" | "new" | "built"
    found,      \* the find_unit calls made: <<probe, result>>
    \* ---- main.rs: get_breakpoints
    gbIn,       \* <<>> or <<[obj, filter, units]>>: the call's arguments and
                \* the units load_debug gave
    gbUnits,    \* the units the for loop has not yet reached
    locations,  \* let mut locations = Vec::new()
    gbPc,       \* "none" | "units" | "returned"
    \* ---- lib.rs: set_breakpoints on two threads of one tracee
    thr         \* per thread: its locals and where it is

spanVars == <<input, iter, last, out, spanPc>>
patchVars == <<breakpoints, spans, cur, todo, res, mem, mem0, prot, patchPc>>
traceeVars == <<envSet, loaded, nCalls, aPc, aPid, aBuf, aRead, aClosed, aHist,
                procState>>
sockVars == <<pending, a2c, c2a, wire>>
ctlVars == <<cPc, cConn, cBuf, objseen, parsed, decoded>>
protoVars == <<traceeVars, sockVars, ctlVars>>
mainVars == <<supPc, tracees, supSeen, exitCode, diag>>
dbgVars == <<dbgIn, dbgOut>>
procVars == <<procs, heap, procHist>>
extVars == <<extSelf, extOther, extRes>>
unitVars == <<dwRanges, unit_ranges, ctxPc, found>>
lineVars == <<gbIn, gbUnits, locations, gbPc>>
fnVars == <<extVars, unitVars, lineVars, thr>>
auxVars == <<mainVars, dbgVars, procVars, fnVars>>
vars == <<spanVars, patchVars, protoVars, auxVars>>

----------------------------------------------------------------------------
(* Bounds and program constants *)

\* Longest address list fed to the coalescer.
MaxLen == 3
\* Longest SetBreakpointsReq fed to set_breakpoints.
MaxReq == 3
\* Most send_phdrs calls (one connection each) in a run of the tracee.
MaxCalls == 3

PAGE_SIZE == 4096
\* BREAKPOINT: x86 int3
BREAKPOINT == 204

\* Addresses the lists are drawn from: several per page, page edges, adjacent
\* pages, pages one apart and pages far apart (span.rs's test vectors included).
Addrs == {0, 100, 200, 300, 4000, 4095, 4096, 5000, 8191, 8192, 10000,
          12288, 20000, 30000}

RECURSIVE IsSortedFrom(_, _)
IsSortedFrom(s, i) ==
    IF i >= Len(s) THEN TRUE
    ELSE s[i] <= s[i + 1] /\ IsSortedFrom(s, i + 1)

IsSorted(s) == IsSortedFrom(s, 1)

SeqsUpTo(S, n) == UNION {[1..k -> S] : k \in 0..n}

\* sorted_addrs(): a vector of addresses, sorted ascending, repeats allowed
SortedAddrs == {s \in SeqsUpTo(Addrs, MaxLen) : IsSorted(s)}

----------------------------------------------------------------------------
(* span.rs *)

\* addr & !(PAGE_SIZE - 1)
PageStart(addr) == addr - (addr % PAGE_SIZE)

\* A new span misaligned: start is the address itself.
SpanNew_unaligned(addr) ==
    [start |-> addr, len |-> PAGE_SIZE, addrs |-> <<addr>>]

SpanNew(addr) ==
    [start |-> PageStart(addr), len |-> PAGE_SIZE, addrs |-> <<addr>>]

\* (self.start..(self.start + self.len + PAGE_SIZE)).contains(&other.start)
SpanTouches(self, other) ==
    /\ self.start <= other.start
    /\ other.start < self.start + self.len + PAGE_SIZE

\* extend() that keeps self's len instead of stretching to other's end.
SpanExtend_keeplen(self, other) ==
    IF SpanTouches(self, other)
    THEN [ok |-> TRUE,
          span |-> [start |-> self.start, len |-> self.len,
                    addrs |-> self.addrs \o other.addrs],
          rest |-> <<>>]
    ELSE [ok |-> FALSE, span |-> self, rest |-> <<other>>]

\* extend() that never merges.
SpanExtend_never(self, other) ==
    [ok |-> FALSE, span |-> self, rest |-> <<other>>]

\* extend() that forgets other's addresses.
SpanExtend_dropaddrs(self, other) ==
    IF SpanTouches(self, other)
    THEN [ok |-> TRUE,
          span |-> [start |-> self.start,
                    len |-> other.start + other.len - self.start,
                    addrs |-> self.addrs],
          rest |-> <<>>]
    ELSE [ok |-> FALSE, span |-> self, rest |-> <<other>>]

\* extend() that merges only a span starting inside self (no page of slack).
SpanExtend_noslack(self, other) ==
    IF self.start <= other.start /\ other.start < self.start + self.len
    THEN [ok |-> TRUE,
          span |-> [start |-> self.start,
                    len |-> other.start + other.len - self.start,
                    addrs |-> self.addrs \o other.addrs],
          rest |-> <<>>]
    ELSE [ok |-> FALSE, span |-> self, rest |-> <<other>>]

\* Result<Span, (Span, Span)>: ok = TRUE is Ok(span); ok = FALSE is
\* Err((span, rest[1])).
SpanExtend(self, other) ==
    IF SpanTouches(self, other)
    THEN [ok |-> TRUE,
          span |-> [start |-> self.start,
                    len |-> other.start + other.len - self.start,
                    addrs |-> self.addrs \o other.addrs],
          rest |-> <<>>]
    ELSE [ok |-> FALSE, span |-> self, rest |-> <<other>>]

\* Vec<usize>'s lexicographic order
RECURSIVE SeqLess(_, _)
SeqLess(a, b) ==
    IF b = <<>> THEN FALSE
    ELSE IF a = <<>> THEN TRUE
    ELSE IF Head(a) # Head(b) THEN Head(a) < Head(b)
    ELSE SeqLess(Tail(a), Tail(b))

\* #[derive(PartialOrd, Ord)] on Span: by start, then len, then addrs
SpanLess(a, b) ==
    IF a.start # b.start THEN a.start < b.start
    ELSE IF a.len # b.len THEN a.len < b.len
    ELSE SeqLess(a.addrs, b.addrs)

\* v.into_iter().map(Span::new).coalesce(|prev, cur| prev.extend(cur)).collect()
\* computed in one go: acc is the held span, s the addresses still to come.
RECURSIVE CoalesceFrom(_, _)
CoalesceFrom(acc, s) ==
    IF s = <<>> THEN <<acc>>
    ELSE LET r == SpanExtend(acc, SpanNew(Head(s)))
         IN  IF r.ok THEN CoalesceFrom(r.span, Tail(s))
             ELSE <<r.span>> \o CoalesceFrom(r.rest[1], Tail(s))

CoalesceAll(s) ==
    IF s = <<>> THEN <<>> ELSE CoalesceFrom(SpanNew(Head(s)), Tail(s))

----------------------------------------------------------------------------
(* SpecSpan: the coalesce adaptor, one pulled item per step *)

PatchIdle ==
    /\ breakpoints = <<>>
    /\ spans = <<>>
    /\ cur = <<>>
    /\ todo = <<>>
    /\ res = <<>>
    /\ mem = <<>>
    /\ mem0 = <<>>
    /\ prot = <<>>
    /\ patchPc = "idle"

ProtoIdle ==
    /\ envSet = FALSE
    /\ loaded = <<>>
    /\ nCalls = 0
    /\ aPc = <<>>
    /\ aPid = <<>>
    /\ aBuf = <<>>
    /\ aRead = <<>>
    /\ aClosed = <<>>
    /\ aHist = <<>>
    /\ procState = <<>>
    /\ pending = <<>>
    /\ a2c = <<>>
    /\ c2a = <<>>
    /\ wire = <<>>
    /\ cPc = "idle"
    /\ cConn = 0
    /\ cBuf = <<>>
    /\ objseen = {}
    /\ parsed = <<>>
    /\ decoded = {}

MainIdle ==
    /\ supPc = "none"
    /\ tracees = {}
    /\ supSeen = <<>>
    /\ exitCode = -1
    /\ diag = <<>>

DbgIdle ==
    /\ dbgIn = <<>>
    /\ dbgOut = <<>>

ProcIdle ==
    /\ procs = <<>>
    /\ heap = <<>>
    /\ procHist = <<>>

ExtIdle ==
    /\ extSelf = <<>>
    /\ extOther = <<>>
    /\ extRes = <<>>

UnitIdle ==
    /\ dwRanges = <<>>
    /\ unit_ranges = <<>>
    /\ ctxPc = "none"
    /\ found = <<>>

LineIdle ==
    /\ gbIn = <<>>
    /\ gbUnits = <<>>
    /\ locations = <<>>
    /\ gbPc = "none"

RaceIdle == thr = <<>>

FnIdle == ExtIdle /\ UnitIdle /\ LineIdle /\ RaceIdle

SpanIdle ==
    /\ input = <<>>
    /\ iter = <<>>
    /\ last = <<>>
    /\ out = <<>>
    /\ spanPc = "idle"

SpanInit ==
    /\ input \in SortedAddrs
    /\ iter = input
    /\ last = <<>>
    /\ out = <<>>
    /\ spanPc = "run"
    /\ PatchIdle
    /\ ProtoIdle
    /\ MainIdle
    /\ DbgIdle
    /\ ProcIdle
    /\ FnIdle

\* coalesce takes its first item from the mapped iterator.
CoalesceFirst ==
    /\ spanPc = "run"
    /\ last = <<>>
    /\ iter # <<>>
    /\ last' = <<SpanNew(Head(iter))>>
    /\ iter' = Tail(iter)
    /\ UNCHANGED <<input, out, spanPc, patchVars, protoVars, auxVars>>

\* coalesce pulls the next item and applies |prev, cur| prev.extend(cur):
\* Ok(joined) is held on, Err((prev, cur)) yields prev and holds cur.
CoalesceStep ==
    /\ spanPc = "run"
    /\ last # <<>>
    /\ iter # <<>>
    /\ LET r == SpanExtend(last[1], SpanNew(Head(iter)))
       IN  IF r.ok
           THEN /\ last' = <<r.span>>
                /\ out' = out
           ELSE /\ last' = r.rest
                /\ out' = Append(out, r.span)
    /\ iter' = Tail(iter)
    /\ UNCHANGED <<input, spanPc, patchVars, protoVars, auxVars>>

\* the underlying iterator is exhausted: the held item, if any, is yielded.
CoalesceEnd ==
    /\ spanPc = "run"
    /\ iter = <<>>
    /\ out' = out \o last
    /\ last' = <<>>
    /\ spanPc' = "done"
    /\ UNCHANGED <<input, iter, patchVars, protoVars, auxVars>>

SpanNext == CoalesceFirst \/ CoalesceStep \/ CoalesceEnd

SpecSpan == SpanInit /\ [][SpanNext]_vars

----------------------------------------------------------------------------
(* lib.rs: set_breakpoints, on a buffer of tracee memory (SpecPatch) *)

\* Addresses of the tracee the requests name and the buffer holds: three on
\* adjacent pages, one a page further, and one far away.
PatchAddrs == {100, 4000, 5000, 10000, 30000}

\* What a byte of the buffer may hold before the call (0xCC included).
OrigBytes == {85, BREAKPOINT}

PatchPages == {PageStart(a) : a \in PatchAddrs}

\* gather_phdrs' entry for the injected library itself: it is one of the
\* loaded objects, mapped at addr with one code segment of two pages.
AgentObject ==
    [path |-> "libruskcov_inject.so", addr |-> 28672,
     phdrs |-> <<[vaddr |-> 0, memsize |-> 8192]>>]

\* a lies in a code segment of the injected library
InAgentCode(a) ==
    \E i \in 1..Len(AgentObject.phdrs) :
        LET ph == AgentObject.phdrs[i]
        IN  /\ AgentObject.addr + ph.vaddr <= a
            /\ a < AgentObject.addr + ph.vaddr + ph.memsize

\* SetBreakpointsReq.breakpoints of a request the loop services (non-empty,
\* in whatever order the peer wrote it)
Requests == SeqsUpTo(PatchAddrs, MaxReq) \ {<<>>}

RECURSIVE InsertSorted(_, _)
InsertSorted(x, s) ==
    IF s = <<>> THEN <<x>>
    ELSE IF x < Head(s) THEN <<x>> \o s
    ELSE <<Head(s)>> \o InsertSorted(x, Tail(s))

RECURSIVE SortAsc(_)
SortAsc(s) ==
    IF s = <<>> THEN <<>> ELSE InsertSorted(Head(s), SortAsc(Tail(s)))

\* the sort left out
VecSort_none(s) == s

\* breakpoints.sort(): ascending, stable
VecSort(s) == SortAsc(s)

\* pages of [start, start + len)
SpanPages(span) ==
    {p \in PatchPages : span.start <= p /\ p < span.start + span.len}

\* libc::mprotect(start, len, to): on success every page of the range gets the
\* protection, on failure (-1) nothing changes.
Mprotect(pr, span, to, ok) ==
    IF ok THEN [p \in PatchPages |-> IF p \in SpanPages(span) THEN to ELSE pr[p]]
    ELSE pr

PatchInit ==
    /\ breakpoints \in Requests
    /\ spans = <<>>
    /\ cur = <<>>
    /\ todo = <<>>
    /\ res = <<>>
    /\ mem \in [PatchAddrs -> OrigBytes]
    /\ mem0 = mem
    /\ prot = [p \in PatchPages |-> "rx"]
    /\ patchPc = "entry"
    /\ SpanIdle
    /\ ProtoIdle
    /\ MainIdle
    /\ DbgIdle
    /\ ProcIdle
    /\ FnIdle

\* breakpoints.sort(); the spans iterator; let mut res = Vec::new()
PatchSort ==
    /\ patchPc = "entry"
    /\ spans' = CoalesceAll(VecSort(breakpoints))
    /\ res' = <<>>
    /\ patchPc' = "loop"
    /\ UNCHANGED <<breakpoints, cur, todo, mem, mem0, prot, spanVars, protoVars, auxVars>>

\* for span in spans { mprotect(span.start, span.len, PROT_WRITE): the result
\* is not looked at
PatchMakeWritable ==
    /\ patchPc = "loop"
    /\ spans # <<>>
    /\ cur' = <<Head(spans)>>
    /\ spans' = Tail(spans)
    /\ todo' = Head(spans).addrs
    /\ \E ok \in BOOLEAN : prot' = Mprotect(prot, Head(spans), "w", ok)
    /\ patchPc' = "write"
    /\ UNCHANGED <<breakpoints, res, mem, mem0, spanVars, protoVars, auxVars>>

\* a store as wide as the page: every byte of the page of addr is replaced.
PatchWrite_page ==
    /\ patchPc = "write"
    /\ todo # <<>>
    /\ LET addr == Head(todo)
       IN  IF prot[PageStart(addr)] = "w"
           THEN /\ res' = Append(res, <<addr, mem[addr]>>)
                /\ mem' = [x \in PatchAddrs |->
                             IF PageStart(x) = PageStart(addr)
                             THEN BREAKPOINT ELSE mem[x]]
                /\ todo' = Tail(todo)
                /\ patchPc' = patchPc
           ELSE /\ patchPc' = "segv"
                /\ UNCHANGED <<res, mem, todo>>
    /\ UNCHANGED <<breakpoints, spans, cur, mem0, prot, spanVars, protoVars, auxVars>>

\* for addr in span.addrs { old = mem::replace(inst, BREAKPOINT);
\* res.push((addr, old)) }: a store to a page that is not writable faults, and
\* the tracee dies of SIGSEGV inside set_breakpoints.
PatchWrite ==
    /\ patchPc = "write"
    /\ todo # <<>>
    /\ LET addr == Head(todo)
       IN  IF prot[PageStart(addr)] = "w"
           THEN /\ res' = Append(res, <<addr, mem[addr]>>)
                /\ mem' = [mem EXCEPT ![addr] = BREAKPOINT]
                /\ todo' = Tail(todo)
                /\ patchPc' = patchPc
           ELSE /\ patchPc' = "segv"
                /\ UNCHANGED <<res, mem, todo>>
    /\ UNCHANGED <<breakpoints, spans, cur, mem0, prot, spanVars, protoVars, auxVars>>

\* mprotect(span.start, span.len, PROT_READ | PROT_EXEC) }: the result is not
\* looked at
PatchRestore ==
    /\ patchPc = "write"
    /\ todo = <<>>
    /\ \E ok \in BOOLEAN : prot' = Mprotect(prot, cur[1], "rx", ok)
    /\ cur' = <<>>
    /\ patchPc' = "loop"
    /\ UNCHANGED <<breakpoints, spans, todo, res, mem, mem0, spanVars, protoVars, auxVars>>

\* SetBreakpointsResp { set: res }
PatchReturn ==
    /\ patchPc = "loop"
    /\ spans = <<>>
    /\ patchPc' = "returned"
    /\ UNCHANGED <<breakpoints, spans, cur, todo, res, mem, mem0, prot, spanVars, protoVars, auxVars>>

PatchNext ==
    PatchSort \/ PatchMakeWritable \/ PatchWrite \/ PatchRestore \/ PatchReturn

SpecPatch == PatchInit /\ [][PatchNext]_vars

----------------------------------------------------------------------------
(* The dialog: send_phdrs in the tracee, try_main's accept loop (SpecProto) *)

Calls == 1..MaxCalls

\* the spawned child and one further process of its tree
PrimaryPid == 7
Pids == {PrimaryPid, 8}

\* what the dynamic linker has mapped when the initializers run, and a
\* library the tracee may dlopen later
StartObjects == <<"a.out", "libruskcov_inject.so">>
PluginObject == "libplug.so"

\* virtual_memory_bias() and the code segments of each object
ObjBias(path) ==
    IF path = AgentObject.path THEN AgentObject.addr
    ELSE IF path = PluginObject THEN 8192
    ELSE 0

ObjPhdrs(path) ==
    IF path = AgentObject.path THEN AgentObject.phdrs
    ELSE <<[vaddr |-> 0, memsize |-> 4096]>>

\* gather_phdrs(): one ObjectInfo per loaded object, in the linker's order
GatherPhdrs(pid) ==
    [i \in 1..Len(loaded[pid]) |->
        [pid |-> pid, path |-> loaded[pid][i],
         addr |-> ObjBias(loaded[pid][i]),
         phdrs |-> ObjPhdrs(loaded[pid][i])]]

\* SetBreakpointsReq::default()
EmptyReq == [from |-> "controller", type |-> "SetBreakpointsReq", body |-> <<>>]

\* the tracee's end of a connection is closed once the thread holding it has
\* returned from send_phdrs or is no more
AgentLive(c) == aPc[c] \in {"start", "connected", "flush", "loop", "patch"}

\* the process dies (abort on panic, fatal signal) or its image is replaced
\* (exec; the sockets are close-on-exec): its threads are gone and the
\* connections they held are closed. Yields the new aPc and aClosed.
EndThreads(pid, how) ==
    [pc |-> [c \in Calls |->
                IF c <= nCalls /\ aPid[c] = pid /\ AgentLive(c) THEN how ELSE aPc[c]],
     closed |-> [c \in Calls |->
                IF c <= nCalls /\ aPid[c] = pid /\ AgentLive(c)
                THEN aPc[c] # "start" \/ aClosed[c]
                ELSE aClosed[c]]]

\* the controller process has ended (a panic on the main thread, or main
\* returned): the listener and every accepted connection are closed
CtlGone == cPc \in {"panic", "exited"}

\* a call that has not been made
NoHist == [kind |-> "none", afterDone |-> FALSE, dl |-> "none", conn |-> "none"]

\* the send_phdrs calls of pid's present image: those from its latest
\* initializer call on
ImageCalls(pid) ==
    {c \in 1..nCalls :
        /\ aPid[c] = pid
        /\ \A d \in c+1..nCalls :
              ~(aPid[d] = pid /\ aHist[d].kind = "ctor")}

\* some send_phdrs call of pid's present image has left its loop on an empty
\* request
LeftLoop(pid) == \E c \in ImageCalls(pid) : aPc[c] = "done"

ProtoInit ==
    /\ envSet \in BOOLEAN
    /\ loaded = [pid \in Pids |-> <<>>]
    /\ nCalls = 0
    /\ aPc = [c \in Calls |-> "none"]
    /\ aPid = [c \in Calls |-> 0]
    /\ aBuf = [c \in Calls |-> <<>>]
    /\ aRead = [c \in Calls |-> 0]
    /\ aClosed = [c \in Calls |-> FALSE]
    /\ aHist = [c \in Calls |-> NoHist]
    /\ procState = [pid \in Pids |-> IF pid = PrimaryPid THEN "running" ELSE "none"]
    /\ pending = <<>>
    /\ a2c = [c \in Calls |-> <<>>]
    /\ c2a = [c \in Calls |-> <<>>]
    /\ wire = [c \in Calls |-> <<>>]
    /\ cPc = "accept"
    /\ cConn = 0
    /\ cBuf = <<>>
    /\ objseen = {}
    /\ parsed = <<>>
    /\ decoded = {}
    /\ supPc = "wait"
    /\ tracees = {PrimaryPid}
    /\ supSeen = <<>>
    /\ exitCode = -1
    /\ diag = <<>>
    /\ DbgIdle
    /\ ProcIdle
    /\ FnIdle
    /\ SpanIdle
    /\ PatchIdle

\* #[ctor] init_send_phdrs: a process image starts in pid (the spawned child's,
\* a later exec, or a forked process's exec) and the initializer calls
\* send_phdrs before user code runs.
InitSendPhdrs(pid) ==
    /\ nCalls < MaxCalls
    /\ \/ procState[pid] = "running"
       \/ /\ procState[pid] = "none"
          /\ procState[PrimaryPid] = "running"
          /\ loaded[PrimaryPid] # <<>>
    /\ LET c == nCalls + 1
           e == EndThreads(pid, "gone")
       IN  /\ nCalls' = c
           /\ aPc' = [e.pc EXCEPT ![c] = "start"]
           /\ aClosed' = e.closed
           /\ aPid' = [aPid EXCEPT ![c] = pid]
           /\ aHist' = [aHist EXCEPT ![c] = [NoHist EXCEPT !.kind = "ctor"]]
    /\ loaded' = [loaded EXCEPT ![pid] = StartObjects]
    /\ procState' = [procState EXCEPT ![pid] = "running"]
    /\ UNCHANGED <<envSet, aBuf, aRead, sockVars, ctlVars, spanVars, patchVars,
                   auxVars>>

\* dlopen(): dlsym(RTLD_NEXT, b"dlopen") is handed a name with no NUL and its
\* result is called through one dereference too many, so what the call does
\* is not defined: it may find no symbol and return null, take the process
\* down, or behave as written (the real dlopen fails, or loads the object and
\* send_phdrs is called). The object asked for is the plugin: new to the link
\* map the first time, already in it after that.
Dlopen(pid) ==
    /\ nCalls < MaxCalls
    /\ procState[pid] = "running"
    /\ loaded[pid] # <<>>
    /\ \E outcome \in {"nosym", "crash", "null", "loaded"} :
         LET c == nCalls + 1
         IN  /\ nCalls' = c
             /\ aPid' = [aPid EXCEPT ![c] = pid]
             /\ aHist' = [aHist EXCEPT ![c] =
                            [kind |-> "dlopen", afterDone |-> LeftLoop(pid),
                             dl |-> outcome, conn |-> "none"]]
             /\ IF outcome = "loaded"
                THEN /\ loaded' = [loaded EXCEPT ![pid] =
                             IF \E i \in 1..Len(@) : @[i] = PluginObject
                             THEN @ ELSE Append(@, PluginObject)]
                     /\ aPc' = [aPc EXCEPT ![c] = "start"]
                     /\ UNCHANGED <<aClosed, procState>>
                ELSE IF outcome = "crash"
                THEN LET e == EndThreads(pid, "dead")
                     IN  /\ aPc' = [e.pc EXCEPT ![c] = "dead"]
                         /\ aClosed' = e.closed
                         /\ procState' = [procState EXCEPT ![pid] = "dead"]
                         /\ UNCHANGED loaded
                ELSE /\ aPc' = [aPc EXCEPT ![c] = "off"]
                     /\ UNCHANGED <<loaded, aClosed, procState>>
    /\ UNCHANGED <<envSet, aBuf, aRead, sockVars, ctlVars, spanVars, patchVars,
                   auxVars>>

\* send_phdrs, to the BufReader/BufWriter: env::var(SOCKET_ENV),
\* UnixStream::connect, try_clone; each failure returns. A connection made and
\* then given up (try_clone failed) is closed without a byte sent.
AgentConnect(c) ==
    /\ c <= nCalls
    /\ aPc[c] = "start"
    /\ IF ~envSet
       THEN /\ aPc' = [aPc EXCEPT ![c] = "off"]
            /\ aHist' = [aHist EXCEPT ![c].conn = "unset"]
            /\ UNCHANGED <<pending, aClosed>>
       ELSE \E outcome \in {"refused", "noclone", "ok"} :
              /\ outcome = "ok" => ~CtlGone
              /\ outcome = "noclone" => ~CtlGone
              /\ aPc' = [aPc EXCEPT ![c] = IF outcome = "ok" THEN "connected" ELSE "off"]
              /\ aHist' = [aHist EXCEPT ![c].conn = outcome]
              /\ pending' = IF outcome = "refused" THEN pending ELSE Append(pending, c)
              /\ aClosed' = [aClosed EXCEPT ![c] = (outcome = "noclone")]
    /\ UNCHANGED <<envSet, loaded, nCalls, aPid, aBuf, aRead, procState, a2c, c2a,
                   wire, ctlVars, spanVars, patchVars, auxVars>>

\* the snapshot that reports nothing
AgentSerialize_nobody(c) ==
    /\ c <= nCalls
    /\ aPc[c] = "connected"
    /\ aBuf' = [aBuf EXCEPT ![c] =
                  Append(@, [from |-> "agent", type |-> "ObjectInfo", body |-> <<>>])]
    /\ aPc' = [aPc EXCEPT ![c] = "flush"]
    /\ UNCHANGED <<envSet, loaded, nCalls, aPid, aRead, aClosed, aHist, procState,
                   sockVars, ctlVars, spanVars, patchVars, auxVars>>

\* let phdrs = gather_phdrs(); bincode::serialize_into(&mut sock_wr, &phdrs)
AgentSerialize(c) ==
    /\ c <= nCalls
    /\ aPc[c] = "connected"
    /\ aBuf' = [aBuf EXCEPT ![c] =
                  Append(@, [from |-> "agent", type |-> "ObjectInfo",
                             body |-> GatherPhdrs(aPid[c])])]
    /\ aPc' = [aPc EXCEPT ![c] = "flush"]
    /\ UNCHANGED <<envSet, loaded, nCalls, aPid, aRead, aClosed, aHist, procState,
                   sockVars, ctlVars, spanVars, patchVars, auxVars>>

\* sock_wr.flush().expect(..): the buffered bytes go out; with the controller
\* gone the write fails and the expect panics, which aborts the tracee.
AgentFlush(c) ==
    /\ c <= nCalls
    /\ aPc[c] = "flush"
    /\ IF CtlGone
       THEN LET e == EndThreads(aPid[c], "dead")
            IN  /\ aPc' = e.pc
                /\ aClosed' = e.closed
                /\ procState' = [procState EXCEPT ![aPid[c]] = "dead"]
                /\ UNCHANGED <<aBuf, a2c, wire>>
       ELSE /\ a2c' = [a2c EXCEPT ![c] = @ \o aBuf[c]]
            /\ wire' = [wire EXCEPT ![c] = @ \o aBuf[c]]
            /\ aBuf' = [aBuf EXCEPT ![c] = <<>>]
            /\ aPc' = [aPc EXCEPT ![c] = "loop"]
            /\ UNCHANGED <<aClosed, procState>>
    /\ UNCHANGED <<envSet, loaded, nCalls, aPid, aRead, aHist, pending, c2a,
                   ctlVars, spanVars, patchVars, auxVars>>

\* the loop that answers an empty request like any other and reads on
AgentRecv_ackempty(c) ==
    /\ c <= nCalls
    /\ aPc[c] = "loop"
    /\ c2a[c] # <<>>
    /\ c2a' = [c2a EXCEPT ![c] = Tail(@)]
    /\ aRead' = [aRead EXCEPT ![c] = @ + 1]
    /\ aPc' = [aPc EXCEPT ![c] = "patch"]
    /\ breakpoints' = Head(c2a[c]).body
    /\ mem0' = mem
    /\ patchPc' = "entry"
    /\ UNCHANGED <<aClosed, spans, cur, todo, res, mem, prot, procState>>
    /\ UNCHANGED <<envSet, loaded, nCalls, aPid, aBuf, aHist, pending, a2c, wire,
                   ctlVars, spanVars, auxVars>>

\* loop { deserialize_from(&mut sock_rd).expect(..); if is_empty() { break }
\* set_breakpoints(..) ..}: an empty request ends the loop and send_phdrs
\* returns, dropping both halves of the socket; a non-empty one enters
\* set_breakpoints; end-of-stream fails the decode and the expect panics.
AgentRecv(c) ==
    /\ c <= nCalls
    /\ aPc[c] = "loop"
    /\ IF c2a[c] # <<>>
       THEN /\ c2a' = [c2a EXCEPT ![c] = Tail(@)]
            /\ aRead' = [aRead EXCEPT ![c] = @ + 1]
            /\ IF Head(c2a[c]).body = <<>>
               THEN /\ aPc' = [aPc EXCEPT ![c] = "done"]
                    /\ aClosed' = [aClosed EXCEPT ![c] = TRUE]
                    /\ UNCHANGED patchVars
               ELSE /\ aPc' = [aPc EXCEPT ![c] = "patch"]
                    /\ breakpoints' = Head(c2a[c]).body
                    /\ mem0' = mem
                    /\ patchPc' = "entry"
                    /\ UNCHANGED <<aClosed, spans, cur, todo, res, mem, prot>>
            /\ UNCHANGED procState
       ELSE /\ CtlGone \/ (c \in decoded /\ cConn # c)
            /\ LET e == EndThreads(aPid[c], "dead")
               IN  /\ aPc' = e.pc
                   /\ aClosed' = e.closed
            /\ procState' = [procState EXCEPT ![aPid[c]] = "dead"]
            /\ UNCHANGED <<c2a, aRead, patchVars>>
    /\ UNCHANGED <<envSet, loaded, nCalls, aPid, aBuf, aHist, pending, a2c, wire,
                   ctlVars, spanVars, auxVars>>

\* the accept that goes on to write the request without reading the snapshot
CtlAccept_nodecode ==
    /\ cPc = "accept"
    /\ pending # <<>>
    /\ cConn' = Head(pending)
    /\ pending' = Tail(pending)
    /\ cPc' = "serialize"
    /\ UNCHANGED <<cBuf, objseen, parsed, decoded, a2c, c2a, wire,
                   traceeVars, spanVars, patchVars, auxVars>>

\* for conn in listener.incoming() { Ok(conn) => reader, writer
CtlAccept ==
    /\ cPc = "accept"
    /\ pending # <<>>
    /\ cConn' = Head(pending)
    /\ pending' = Tail(pending)
    /\ cPc' = "decode"
    /\ UNCHANGED <<cBuf, objseen, parsed, decoded, a2c, c2a, wire,
                   traceeVars, spanVars, patchVars, auxVars>>

\* every object of a snapshot taken as new
NewObjects_all(objs, seen) ==
    [i \in 1..Len(objs) |-> <<objs[i].pid, objs[i].path>>]

\* the objects of a snapshot that objseen.insert() finds new, in order
RECURSIVE NewObjects(_, _)
NewObjects(objs, seen) ==
    IF objs = <<>> THEN <<>>
    ELSE LET key == <<Head(objs).pid, Head(objs).path>>
         IN  IF key \in seen THEN NewObjects(Tail(objs), seen)
             ELSE <<key>> \o NewObjects(Tail(objs), seen \cup {key})

\* get_breakpoints(obj, ..) is Ok or Err by what load_debug finds in the file:
\* the plugin is taken to carry no usable debug information
GetBreakpointsOk(path) == path # PluginObject

\* a panic on the main thread: the message goes to stderr and the process
\* ends with status 101
Panic(msg) ==
    /\ cPc' = "panic"
    /\ exitCode' = 101
    /\ diag' = <<msg>>

\* let objinfo = deserialize_from(&mut reader).expect(..); for obj in &objinfo
\* { if objseen.insert(..) { get_breakpoints(obj, ..) } }: blocks until the
\* message is there; end-of-stream fails the decode and the expect panics.
\* Whether get_breakpoints returns Ok or Err (which is printed), the key stays
\* in objseen.
CtlDecode ==
    /\ cPc = "decode"
    /\ IF a2c[cConn] # <<>>
       THEN LET objinfo == Head(a2c[cConn]).body
                fresh == NewObjects(objinfo, objseen)
            IN  /\ a2c' = [a2c EXCEPT ![cConn] = Tail(@)]
                /\ objseen' = objseen \cup {fresh[i] : i \in 1..Len(fresh)}
                /\ parsed' = parsed \o
                      [i \in 1..Len(fresh) |->
                          [key |-> fresh[i], ok |-> GetBreakpointsOk(fresh[i][2])]]
                /\ decoded' = decoded \cup {cConn}
                /\ cPc' = "serialize"
                /\ UNCHANGED <<exitCode, diag>>
       ELSE /\ aClosed[cConn]
            /\ Panic("ObjectInfo decode failed")
            /\ UNCHANGED <<a2c, objseen, parsed, decoded>>
    /\ UNCHANGED <<cConn, cBuf, pending, c2a, wire, traceeVars, spanVars, patchVars,
                   supPc, tracees, supSeen, dbgVars, procVars, fnVars>>

\* bincode::serialize_into(&mut writer, &SetBreakpointsReq::default())
CtlSerialize ==
    /\ cPc = "serialize"
    /\ cBuf' = Append(cBuf, EmptyReq)
    /\ cPc' = "flush"
    /\ UNCHANGED <<cConn, objseen, parsed, decoded, sockVars, traceeVars,
                   spanVars, patchVars, auxVars>>

\* writer.flush().expect("flush send"); the connection is dropped at the end
\* of the loop body. With the tracee's end closed the write fails and the
\* expect panics.
CtlFlush ==
    /\ cPc = "flush"
    /\ IF aClosed[cConn]
       THEN /\ Panic("flush send")
            /\ UNCHANGED <<c2a, wire, cBuf, cConn>>
       ELSE /\ c2a' = [c2a EXCEPT ![cConn] = @ \o cBuf]
            /\ wire' = [wire EXCEPT ![cConn] = @ \o cBuf]
            /\ cBuf' = <<>>
            /\ cConn' = 0
            /\ cPc' = "accept"
            /\ UNCHANGED <<exitCode, diag>>
    /\ UNCHANGED <<objseen, parsed, decoded, pending, a2c, traceeVars,
                   spanVars, patchVars, supPc, tracees, supSeen, dbgVars, procVars, fnVars>>

ProtoNext ==
    \/ \E pid \in Pids : InitSendPhdrs(pid)
    \/ \E pid \in Pids : Dlopen(pid)
    \/ \E c \in Calls : AgentConnect(c)
    \/ \E c \in Calls : AgentSerialize(c)
    \/ \E c \in Calls : AgentFlush(c)
    \/ \E c \in Calls : AgentRecv(c)
    \/ CtlAccept
    \/ CtlDecode
    \/ CtlSerialize
    \/ CtlFlush

SpecProto == ProtoInit /\ [][ProtoNext]_vars

----------------------------------------------------------------------------
(* One send_phdrs call and its connection, the listening end free to send any
   requests in any number (SpecAgent) *)

\* requests the peer sends on the connection
MaxBatches == 3

\* the batches the peer chooses from: SetBreakpointsReq::default() and some
\* that are not empty (unsorted, and with a repeat)
PeerBatches == {<<>>, <<100>>, <<5000, 4000>>, <<100, 100>>}

FromPeer(c) == SelectSeq(wire[c], LAMBDA m : m.from = "controller")

AgentInit ==
    /\ envSet = TRUE
    /\ loaded = [pid \in Pids |-> IF pid = PrimaryPid THEN StartObjects ELSE <<>>]
    /\ nCalls = 1
    /\ aPc = [c \in Calls |-> IF c = 1 THEN "start" ELSE "none"]
    /\ aPid = [c \in Calls |-> IF c = 1 THEN PrimaryPid ELSE 0]
    /\ aBuf = [c \in Calls |-> <<>>]
    /\ aRead = [c \in Calls |-> 0]
    /\ aClosed = [c \in Calls |-> FALSE]
    /\ aHist = [c \in Calls |->
                  IF c = 1 THEN [NoHist EXCEPT !.kind = "ctor"] ELSE NoHist]
    /\ procState = [pid \in Pids |-> IF pid = PrimaryPid THEN "running" ELSE "none"]
    /\ pending = <<>>
    /\ a2c = [c \in Calls |-> <<>>]
    /\ c2a = [c \in Calls |-> <<>>]
    /\ wire = [c \in Calls |-> <<>>]
    /\ cPc = "peer"
    /\ cConn = 0
    /\ cBuf = <<>>
    /\ objseen = {}
    /\ parsed = <<>>
    /\ decoded = {}
    /\ breakpoints = <<>>
    /\ spans = <<>>
    /\ cur = <<>>
    /\ todo = <<>>
    /\ res = <<>>
    /\ mem \in [PatchAddrs -> {85}]
    /\ mem0 = mem
    /\ prot = [p \in PatchPages |-> "rx"]
    /\ patchPc = "idle"
    /\ MainIdle
    /\ DbgIdle
    /\ ProcIdle
    /\ FnIdle
    /\ SpanIdle

\* let resp = set_breakpoints(req.breakpoints);
\* bincode::serialize_into(&mut sock_wr, &resp): the call has returned and its
\* result goes into the BufWriter; the flush is the next statement
AgentReply(c) ==
    /\ c <= nCalls
    /\ aPc[c] = "patch"
    /\ patchPc = "returned"
    /\ aBuf' = [aBuf EXCEPT ![c] =
                  Append(@, [from |-> "agent", type |-> "SetBreakpointsResp",
                             body |-> res])]
    /\ aPc' = [aPc EXCEPT ![c] = "flush"]
    /\ patchPc' = "idle"
    /\ breakpoints' = <<>>
    /\ res' = <<>>
    /\ UNCHANGED <<spans, cur, todo, mem, mem0, prot>>
    /\ UNCHANGED <<envSet, loaded, nCalls, aPid, aRead, aClosed, aHist, procState,
                   sockVars, ctlVars, spanVars, auxVars>>

\* set_breakpoints faulted on a store: SIGSEGV ends the tracee, no response
\* is written
AgentFault(c) ==
    /\ c <= nCalls
    /\ aPc[c] = "patch"
    /\ patchPc = "segv"
    /\ LET e == EndThreads(aPid[c], "dead")
       IN  /\ aPc' = e.pc
           /\ aClosed' = e.closed
    /\ procState' = [procState EXCEPT ![aPid[c]] = "dead"]
    /\ patchPc' = "idle"
    /\ UNCHANGED <<breakpoints, spans, cur, todo, res, mem, mem0, prot>>
    /\ UNCHANGED <<envSet, loaded, nCalls, aPid, aBuf, aRead, aHist, sockVars,
                   ctlVars, spanVars, auxVars>>

\* the listening end takes the connection
PeerAccept ==
    /\ cPc = "peer"
    /\ pending # <<>>
    /\ cConn' = Head(pending)
    /\ pending' = Tail(pending)
    /\ UNCHANGED <<cPc, cBuf, objseen, parsed, decoded, a2c, c2a, wire,
                   traceeVars, spanVars, patchVars, auxVars>>

\* and writes a SetBreakpointsReq, whatever the agent has done so far
PeerSend ==
    /\ cPc = "peer"
    /\ cConn # 0
    /\ ~aClosed[cConn]
    /\ Len(FromPeer(cConn)) < MaxBatches
    /\ \E b \in PeerBatches :
         LET m == [from |-> "controller", type |-> "SetBreakpointsReq", body |-> b]
         IN  /\ c2a' = [c2a EXCEPT ![cConn] = Append(@, m)]
             /\ wire' = [wire EXCEPT ![cConn] = Append(@, m)]
    /\ UNCHANGED <<pending, a2c, ctlVars, traceeVars, spanVars, patchVars, auxVars>>

\* or reads what the agent has written
PeerRecv ==
    /\ cPc = "peer"
    /\ cConn # 0
    /\ a2c[cConn] # <<>>
    /\ a2c' = [a2c EXCEPT ![cConn] = Tail(@)]
    /\ UNCHANGED <<pending, c2a, wire, ctlVars, traceeVars, spanVars, patchVars,
                   auxVars>>

AgentNext ==
    \/ \E c \in Calls : AgentConnect(c)
    \/ \E c \in Calls : AgentSerialize(c)
    \/ \E c \in Calls : AgentFlush(c)
    \/ \E c \in Calls : AgentRecv(c)
    \/ PatchSort
    \/ PatchMakeWritable
    \/ PatchWrite
    \/ PatchRestore
    \/ PatchReturn
    \/ \E c \in Calls : AgentReply(c)
    \/ \E c \in Calls : AgentFault(c)
    \/ PeerAccept
    \/ PeerSend
    \/ PeerRecv

SpecAgent == AgentInit /\ [][AgentNext]_vars

----------------------------------------------------------------------------
(* main and try_main from the start, the tracee's exit and the thread around
   wait::wait() (SpecMain) *)

\* the contexts try_main attaches to a failing startup step
StartupErrors ==
    {"Making tempdir", "regex", "Socket bind", "process spawn", "attaching to child"}

MainInit ==
    /\ envSet = TRUE
    /\ loaded = [pid \in Pids |-> <<>>]
    /\ nCalls = 0
    /\ aPc = [c \in Calls |-> "none"]
    /\ aPid = [c \in Calls |-> 0]
    /\ aBuf = [c \in Calls |-> <<>>]
    /\ aRead = [c \in Calls |-> 0]
    /\ aClosed = [c \in Calls |-> FALSE]
    /\ aHist = [c \in Calls |-> NoHist]
    /\ procState = [pid \in Pids |-> "none"]
    /\ pending = <<>>
    /\ a2c = [c \in Calls |-> <<>>]
    /\ c2a = [c \in Calls |-> <<>>]
    /\ wire = [c \in Calls |-> <<>>]
    /\ cPc = "tempdir"
    /\ cConn = 0
    /\ cBuf = <<>>
    /\ objseen = {}
    /\ parsed = <<>>
    /\ decoded = {}
    /\ MainIdle
    /\ DbgIdle
    /\ ProcIdle
    /\ FnIdle
    /\ SpanIdle
    /\ PatchIdle

\* a startup step of try_main: Ok goes on to the next step; Err(..) is
\* returned with its context by `?`, and main prints "Failed : .." and
\* returns, which ends the process with status 0
StartupStep(at, next, context) ==
    /\ cPc = at
    /\ \E ok \in BOOLEAN :
         IF ok
         THEN /\ cPc' = next
              /\ UNCHANGED <<exitCode, diag>>
         ELSE /\ cPc' = "exited"
              /\ diag' = <<context>>
              /\ exitCode' = 0

\* tempfile::Builder::new().prefix("ruskcov").tempdir().context("Making tempdir")?
MainTempdir ==
    /\ StartupStep("tempdir", "filter", "Making tempdir")
    /\ UNCHANGED <<cConn, cBuf, objseen, parsed, decoded, sockVars, traceeVars,
                   spanVars, patchVars, supPc, tracees, supSeen, dbgVars, procVars, fnVars>>

\* Filter { dir_include: RegexSet::new(..)?, dir_exclude: RegexSet::new(..)? }
MainFilter ==
    /\ StartupStep("filter", "bind", "regex")
    /\ UNCHANGED <<cConn, cBuf, objseen, parsed, decoded, sockVars, traceeVars,
                   spanVars, patchVars, supPc, tracees, supSeen, dbgVars, procVars, fnVars>>

\* UnixListener::bind(&sock_path).context("Socket bind")?
MainBind ==
    /\ StartupStep("bind", "spawn", "Socket bind")
    /\ UNCHANGED <<cConn, cBuf, objseen, parsed, decoded, sockVars, traceeVars,
                   spanVars, patchVars, supPc, tracees, supSeen, dbgVars, procVars, fnVars>>

\* command.spawn().context("process spawn")?: the child is there once spawn
\* has returned Ok
MainSpawn ==
    /\ StartupStep("spawn", "seize", "process spawn")
    /\ procState' = [procState EXCEPT ![PrimaryPid] =
                        IF cPc' = "seize" THEN "running" ELSE @]
    /\ tracees' = IF cPc' = "seize" THEN {PrimaryPid} ELSE tracees
    /\ UNCHANGED <<envSet, loaded, nCalls, aPc, aPid, aBuf, aRead, aClosed, aHist>>
    /\ UNCHANGED <<cConn, cBuf, objseen, parsed, decoded, sockVars,
                   spanVars, patchVars, supPc, supSeen, dbgVars, procVars, fnVars>>

\* ptrace::seize(child_id, ..).context("attaching to child")?; thread::spawn
\* of the wait loop; let mut objseen = HashSet::new()
MainSeize ==
    /\ StartupStep("seize", "accept", "attaching to child")
    /\ supPc' = IF cPc' = "accept" THEN "wait" ELSE supPc
    /\ UNCHANGED <<cConn, cBuf, objseen, parsed, decoded, sockVars, traceeVars,
                   spanVars, patchVars, tracees, supSeen, dbgVars, procVars, fnVars>>

\* the tracee process ends of itself (exit, or return from main): its
\* threads are gone and its connections closed
TraceeExit(pid) ==
    /\ procState[pid] = "running"
    /\ loaded[pid] # <<>>
    /\ LET e == EndThreads(pid, "gone")
       IN  /\ aPc' = e.pc
           /\ aClosed' = e.closed
    /\ procState' = [procState EXCEPT ![pid] = "exited"]
    /\ UNCHANGED <<envSet, loaded, nCalls, aPid, aBuf, aRead, aHist, sockVars,
                   ctlVars, spanVars, patchVars, auxVars>>

\* the statuses wait::wait() (waitpid(-1, no flags)) can return for a tracee
\* seized with TRACECLONE | TRACEEXEC | TRACEFORK | TRACEVFORK | TRACESYSGOOD:
\* an ended tracee gives Exited or Signaled, a live one a signal-delivery
\* stop or a ptrace event stop. (PtraceSyscall needs PTRACE_SYSCALL and
\* Continued needs WCONTINUED: the program asks for neither.)
WaitStatuses(pid) ==
    IF procState[pid] = "exited" THEN {"Exited"}
    ELSE IF procState[pid] = "dead" THEN {"Signaled"}
    ELSE IF procState[pid] = "running" THEN {"Stopped", "PtraceEvent"}
    ELSE {}

\* while let Ok(status) = wait::wait() { println!(..); match status {
\* Exited(..) => unimplemented!(), Signaled(..) => unimplemented!(),
\* Stopped(..) => unimplemented!(), PtraceEvent(..) => unimplemented!(), .. } }:
\* the first status panics the thread; the panic of a spawned thread ends
\* that thread and nothing else. No arm touches State.tracees. (A stopped
\* tracee is not held back here: holding it only removes behaviours.)
SupWait ==
    /\ supPc = "wait"
    /\ ~CtlGone
    /\ \E pid \in Pids : \E status \in WaitStatuses(pid) :
          supSeen' = Append(supSeen, <<status, pid>>)
    /\ supPc' = "panicked"
    /\ UNCHANGED <<tracees, exitCode, diag, dbgVars, procVars, fnVars, protoVars,
                   spanVars, patchVars>>

MainNext ==
    \/ MainTempdir
    \/ MainFilter
    \/ MainBind
    \/ MainSpawn
    \/ MainSeize
    \/ \E pid \in Pids : TraceeExit(pid)
    \/ SupWait
    \/ ProtoNext

SpecMain == MainInit /\ [][MainNext]_vars

----------------------------------------------------------------------------
(* load_debug on an object and the files beside it (SpecDebug) *)

\* let paths = vec![objdir.join(name), objdir.join(".debug").join(name),
\* Path::new("/usr/lib/debug").join(&relobjdir).join(name)]
NumPaths == 3

\* crc::crc32::checksum_ieee of a file's bytes
ChecksumIeee(bytes) == IF bytes = "dbgA" THEN 11 ELSE 22

\* what can be found at a candidate path: nothing that opens; a file that
\* opens and cannot be mapped (empty, or a directory); files that map, with
\* either content, that object::File::parse accepts or not and whose
\* sections Context::from_sections accepts or not
CandFiles ==
    {[opens |-> FALSE, maps |-> FALSE, bytes |-> "", parses |-> FALSE, ctx |-> FALSE],
     [opens |-> TRUE, maps |-> FALSE, bytes |-> "", parses |-> FALSE, ctx |-> FALSE]}
    \cup [opens : {TRUE}, maps : {TRUE}, bytes : {"dbgA", "dbgB"},
          parses : {TRUE}, ctx : BOOLEAN]
    \cup [opens : {TRUE}, maps : {TRUE}, bytes : {"dbgA"},
          parses : {FALSE}, ctx : {FALSE}]

\* the object itself: whether File::open, MappedSlice::new, object::File::parse
\* and Context::new_from_mapping succeed on it, and its .gnu_debuglink
\* section: <<>> or <<(name, crc)>>
ObjFiles ==
    [opens : BOOLEAN, maps : BOOLEAN, parses : BOOLEAN, ctx : BOOLEAN,
     link : {<<>>, <<[name |-> "a.out.debug", crc |-> ChecksumIeee("dbgA")]>>}]

\* inputs as the file system can hold them: what does not open does not map,
\* what does not map does not parse
DebugInputs ==
    {in \in [obj : ObjFiles, cands : [1..NumPaths -> CandFiles]] :
        /\ in.obj.maps => in.obj.opens
        /\ in.obj.parses => in.obj.maps
        /\ in.obj.ctx => in.obj.parses
        /\ in.obj.link # <<>> => in.obj.parses}

DebugErr(msg) == [ok |-> FALSE, sections |-> "none", err |-> msg]

\* for path in paths { if let Ok(f) = File::open(&path) { file = Some(f);
\* break } }: the index of the first candidate that opens, 0 for none
FirstOpen(cands) ==
    IF \E i \in 1..NumPaths : cands[i].opens
    THEN CHOOSE i \in 1..NumPaths :
            cands[i].opens /\ \A j \in 1..i-1 : ~cands[j].opens
    ELSE 0

\* load_debug with the candidate's map error passed on by `?`
LoadDebug(in) ==
    IF ~in.obj.opens THEN DebugErr("Failed to open object")
    ELSE IF ~in.obj.maps THEN DebugErr("mmap")
    ELSE IF ~in.obj.parses THEN DebugErr("object file parse failed")
    ELSE LET k == IF in.obj.link = <<>> THEN 0 ELSE FirstOpen(in.cands)
         IN  IF k # 0 /\ ~in.cands[k].maps THEN DebugErr("mmap")
             ELSE LET useLink ==
                         /\ k # 0
                         /\ in.obj.link[1].crc = ChecksumIeee(in.cands[k].bytes)
                         /\ in.cands[k].parses
                      file == IF useLink THEN in.cands[k] ELSE in.obj
                  IN  IF file.ctx
                      THEN [ok |-> TRUE,
                            sections |-> IF useLink THEN "link" ELSE "primary",
                            err |-> ""]
                      ELSE [ok |-> FALSE,
                            sections |-> IF useLink THEN "link" ELSE "primary",
                            err |-> "dwarf"]

DebugInit ==
    /\ dbgIn \in DebugInputs
    /\ dbgOut = <<>>
    /\ MainIdle
    /\ ProcIdle
    /\ FnIdle
    /\ ProtoIdle
    /\ SpanIdle
    /\ PatchIdle

\* get_breakpoints: let dwarf = load_debug(Path::new(&obj.path), debug)
LoadDebugCall ==
    /\ dbgOut = <<>>
    /\ dbgOut' = <<LoadDebug(dbgIn)>>
    /\ UNCHANGED <<dbgIn, mainVars, procVars, fnVars, protoVars, spanVars, patchVars>>

DebugNext == LoadDebugCall

SpecDebug == DebugInit /\ [][DebugNext]_vars

----------------------------------------------------------------------------
(* process.rs: Process values and the address spaces they hold (SpecProcess) *)

\* Process values made, and Arc<AddressSpace> allocations made
MaxProcs == 3
MaxSpaces == 3

\* (addr, len) lists handed to Process::new and Process::exec: segments
\* apart, segments that overlap, and a base given twice
SegLists ==
    {<<<<0, 4096>>, <<8192, 4096>>>>,
     <<<<0, 8192>>, <<4096, 4096>>>>,
     <<<<0, 4096>>, <<0, 8192>>>>}

\* (addr, Location) lists handed to Process::new: one list, with an address
\* given twice (an empty map of breakpoints comes about through exec)
BpLists ==
    {<<<<100, "a.rs:1">>, <<9000, "b.rs:7">>, <<100, "a.rs:2">>>>}

\* into_iter().collect() into a map: one entry per key, the last pair given
\* for a key is the one kept
CollectMap(pairs) ==
    [k \in {pairs[i][1] : i \in 1..Len(pairs)} |->
        LET i == CHOOSE i \in 1..Len(pairs) :
                    /\ pairs[i][1] = k
                    /\ \A j \in i+1..Len(pairs) : pairs[j][1] # k
        IN  pairs[i][2]]

\* AddressSpace { breakpoints, segments }
AddressSpace(segs, bps) ==
    [breakpoints |-> CollectMap(bps), segments |-> CollectMap(segs)]

ProcessInit ==
    /\ procs = <<>>
    /\ heap = <<>>
    /\ procHist = <<>>
    /\ MainIdle
    /\ DbgIdle
    /\ FnIdle
    /\ ProtoIdle
    /\ SpanIdle
    /\ PatchIdle

\* Process::new(pid, segments, breakpoints)
ProcessNew(pid, segs, bps) ==
    /\ Len(procs) < MaxProcs
    /\ Len(heap) < MaxSpaces
    /\ heap' = Append(heap, AddressSpace(segs, bps))
    /\ procs' = Append(procs, [pid |-> pid, state |-> "New",
                               addrspace |-> Len(heap) + 1])
    /\ procHist' = Append(procHist, [parent |-> 0, pid |-> pid, shares |-> FALSE,
                                     execd |-> FALSE, given |-> <<>>])
    /\ UNCHANGED <<mainVars, dbgVars, fnVars, protoVars, spanVars, patchVars>>

\* the thread that gets an address space of its own, a copy of the parent's
NewThread_copy(i, pid) ==
    /\ i \in 1..Len(procs)
    /\ Len(procs) < MaxProcs
    /\ Len(heap) < MaxSpaces
    /\ heap' = Append(heap, heap[procs[i].addrspace])
    /\ procs' = Append(procs, [pid |-> pid, state |-> "Running",
                               addrspace |-> Len(heap) + 1])
    /\ procHist' = Append(procHist, [parent |-> i, pid |-> pid, shares |-> TRUE,
                                     execd |-> FALSE, given |-> <<>>])
    /\ UNCHANGED <<mainVars, dbgVars, fnVars, protoVars, spanVars, patchVars>>

\* procs[i].new_thread(pid): Arc::clone(&self.addrspace)
NewThread(i, pid) ==
    /\ i \in 1..Len(procs)
    /\ Len(procs) < MaxProcs
    /\ procs' = Append(procs, [pid |-> pid, state |-> "Running",
                               addrspace |-> procs[i].addrspace])
    /\ procHist' = Append(procHist, [parent |-> i, pid |-> pid, shares |-> TRUE,
                                     execd |-> FALSE, given |-> <<>>])
    /\ UNCHANGED <<heap, mainVars, dbgVars, fnVars, protoVars, spanVars, patchVars>>

\* the exec that takes the old breakpoints along
Exec_keepbps(i, segs) ==
    /\ i \in 1..Len(procs)
    /\ Len(heap) < MaxSpaces
    /\ heap' = Append(heap, [breakpoints |-> heap[procs[i].addrspace].breakpoints,
                             segments |-> CollectMap(segs)])
    /\ procs' = [procs EXCEPT ![i].addrspace = Len(heap) + 1]
    /\ procHist' = [j \in 1..Len(procHist) |->
                       [procHist[j] EXCEPT
                           !.shares = @ /\ j # i /\ procHist[j].parent # i,
                           !.execd = @ \/ j = i,
                           !.given = IF j = i THEN segs ELSE @]]
    /\ UNCHANGED <<mainVars, dbgVars, fnVars, protoVars, spanVars, patchVars>>

\* procs[i].exec(segments): mem::replace(&mut self.addrspace, Arc::new(..))
Exec(i, segs) ==
    /\ i \in 1..Len(procs)
    /\ Len(heap) < MaxSpaces
    /\ heap' = Append(heap, AddressSpace(segs, <<>>))
    /\ procs' = [procs EXCEPT ![i].addrspace = Len(heap) + 1]
    /\ procHist' = [j \in 1..Len(procHist) |->
                       [procHist[j] EXCEPT
                           !.shares = @ /\ j # i /\ procHist[j].parent # i,
                           !.execd = @ \/ j = i,
                           !.given = IF j = i THEN segs ELSE @]]
    /\ UNCHANGED <<mainVars, dbgVars, fnVars, protoVars, spanVars, patchVars>>

ProcessNext ==
    \/ \E pid \in Pids, segs \in SegLists, bps \in BpLists : ProcessNew(pid, segs, bps)
    \/ \E i \in 1..MaxProcs, pid \in Pids : NewThread(i, pid)
    \/ \E i \in 1..MaxProcs, segs \in SegLists : Exec(i, segs)

SpecProcess == ProcessInit /\ [][ProcessNext]_vars

----------------------------------------------------------------------------
(* Span::extend on two spans of any origin (SpecExtend) *)

MaxSpanAddrs == 2

\* a Span as the struct allows it, kept to those that hold the addresses
\* they list: start on a page boundary, len a positive number of pages, each
\* addr in [start, start + len)
SpanInv(span) ==
    /\ span.start % PAGE_SIZE = 0
    /\ span.len > 0
    /\ span.len % PAGE_SIZE = 0
    /\ \A i \in 1..Len(span.addrs) :
          span.start <= span.addrs[i] /\ span.addrs[i] < span.start + span.len

ExtAddrs == {100, 4000, 5000, 9000}

Spans ==
    {span \in [start : {0, PAGE_SIZE, 2 * PAGE_SIZE},
               len : {PAGE_SIZE, 2 * PAGE_SIZE},
               addrs : SeqsUpTo(ExtAddrs, MaxSpanAddrs) \ {<<>>}] :
        SpanInv(span)}

ExtendInit ==
    /\ extSelf \in {<<span>> : span \in Spans}
    /\ extOther \in {<<span>> : span \in Spans}
    /\ extRes = <<>>
    /\ UnitIdle
    /\ LineIdle
    /\ RaceIdle
    /\ MainIdle
    /\ DbgIdle
    /\ ProcIdle
    /\ ProtoIdle
    /\ SpanIdle
    /\ PatchIdle

\* self.extend(other)
ExtendCall ==
    /\ extSelf # <<>>
    /\ extRes = <<>>
    /\ extRes' = <<SpanExtend(extSelf[1], extOther[1])>>
    /\ UNCHANGED <<extSelf, extOther, unitVars, lineVars, thr, mainVars, dbgVars,
                   procVars, protoVars, spanVars, patchVars>>

ExtendNext == ExtendCall

SpecExtend == ExtendInit /\ [][ExtendNext]_vars

----------------------------------------------------------------------------
(* symtab.rs: Context::from_dwarf's unit ranges and find_unit (SpecUnits) *)

MaxRanges == 3

\* the addresses ranges and probes are drawn from
RangeAddrs == 0..3

\* gimli::Range { begin, end } as a unit's range list yields it: any two
\* addresses, equal (an empty entry) or out of order (malformed) included
RawRanges == [begin : RangeAddrs, end : RangeAddrs]

\* the ranges of the units in unit order, each with its unit_id (here every
\* unit has one range)
RangeLists ==
    {[i \in 1..Len(f) |-> [range |-> f[i], unit |-> i - 1]] :
        f \in SeqsUpTo(RawRanges, MaxRanges)}

\* if range.begin == range.end { continue; } unit_ranges.push((range, unit_id))
PushRanges(rs) == SelectSeq(rs, LAMBDA x : x.range.begin # x.range.end)

RECURSIVE InsertByBegin(_, _)
InsertByBegin(x, s) ==
    IF s = <<>> THEN <<x>>
    ELSE IF x.range.begin < Head(s).range.begin THEN <<x>> \o s
    ELSE <<Head(s)>> \o InsertByBegin(x, Tail(s))

\* unit_ranges.sort_by_key(|x| x.0.begin): stable
RECURSIVE SortByBegin(_)
SortByBegin(s) ==
    IF s = <<>> THEN <<>>
    ELSE InsertByBegin(s[Len(s)], SortByBegin(SubSeq(s, 1, Len(s) - 1)))

\* the loop with the begin left as it was
RECURSIVE ClampRanges_keepbegin(_, _)
ClampRanges_keepbegin(s, prev_end) ==
    IF s = <<>> THEN <<>>
    ELSE LET r == Head(s).range
             e == IF r.end < prev_end THEN prev_end ELSE r.end
         IN  <<[Head(s) EXCEPT !.range = [begin |-> r.begin, end |-> e]]>>
                 \o ClampRanges_keepbegin(Tail(s), e)

\* for range in &mut unit_ranges { if range.0.begin < prev_end { range.0.begin
\* = prev_end; } if range.0.end < prev_end { range.0.end = prev_end; } else {
\* prev_end = range.0.end; } }
RECURSIVE ClampRanges(_, _)
ClampRanges(s, prev_end) ==
    IF s = <<>> THEN <<>>
    ELSE LET r == Head(s).range
             b == IF r.begin < prev_end THEN prev_end ELSE r.begin
             e == IF r.end < prev_end THEN prev_end ELSE r.end
         IN  <<[Head(s) EXCEPT !.range = [begin |-> b, end |-> e]]>>
                 \o ClampRanges(Tail(s), e)

\* unit_ranges.windows(2).all(|w| w[0].0.end <= w[1].0.begin)
WindowsOrdered(s) ==
    \A i \in 1..Len(s) - 1 : s[i].range.end <= s[i + 1].range.begin

UnitsInit ==
    /\ dwRanges \in RangeLists
    /\ unit_ranges = <<>>
    /\ ctxPc = "new"
    /\ found = <<>>
    /\ ExtIdle
    /\ LineIdle
    /\ RaceIdle
    /\ MainIdle
    /\ DbgIdle
    /\ ProcIdle
    /\ ProtoIdle
    /\ SpanIdle
    /\ PatchIdle

\* Context::from_dwarf: the ranges are pushed, sorted and clamped; a build
\* with debug assertions panics when the debug_assert! fails
FromDwarf ==
    /\ ctxPc = "new"
    /\ LET clamped == ClampRanges(SortByBegin(PushRanges(dwRanges)), 0)
       IN  /\ unit_ranges' = clamped
           /\ IF WindowsOrdered(clamped)
              THEN ctxPc' = "built"
              ELSE ctxPc' \in {"built", "panic"}
    /\ UNCHANGED <<dwRanges, found, extVars, lineVars, thr, mainVars, dbgVars,
                   procVars, protoVars, spanVars, patchVars>>

\* r's answer to the probe: Greater, Less or Equal
ProbeCmp(probe, r) ==
    IF probe < r.range.begin THEN "Greater"
    ELSE IF probe >= r.range.end THEN "Less"
    ELSE "Equal"

\* self.unit_ranges.binary_search_by(..) over [left, right): <<>> is Err
RECURSIVE BinarySearch(_, _, _, _)
BinarySearch(s, probe, left, right) ==
    IF left >= right THEN <<>>
    ELSE LET mid == left + (right - left) \div 2
             ord == ProbeCmp(probe, s[mid + 1])
         IN  IF ord = "Less" THEN BinarySearch(s, probe, mid + 1, right)
             ELSE IF ord = "Greater" THEN BinarySearch(s, probe, left, mid)
             ELSE <<mid>>

\* find_unit(probe): Some(unit_id) of the entry found, or None
FindUnit(probe) ==
    /\ ctxPc = "built"
    /\ LET idx == BinarySearch(unit_ranges, probe, 0, Len(unit_ranges))
       IN  found' = <<probe,
                      IF idx = <<>> THEN <<>>
                      ELSE <<unit_ranges[idx[1] + 1].unit>>>>
    /\ UNCHANGED <<dwRanges, unit_ranges, ctxPc, extVars, lineVars, thr, mainVars,
                   dbgVars, procVars, protoVars, spanVars, patchVars>>

UnitsNext ==
    \/ FromDwarf
    \/ \E probe \in RangeAddrs : FindUnit(probe)

SpecUnits == UnitsInit /\ [][UnitsNext]_vars

----------------------------------------------------------------------------
(* main.rs: get_breakpoints over the units of one object (SpecLines) *)

MaxUnits == 2

\* Paths are lists of components, an absolute one starting with "/". A regex
\* of a RegexSet is a list of components to be found next to each other in
\* the path, from its start when anchored.
OccursAt(re, path, at) ==
    /\ at + Len(re.comps) - 1 <= Len(path)
    /\ \A i \in 1..Len(re.comps) : path[at + i - 1] = re.comps[i]

RegexIsMatch(re, path) ==
    IF re.anchored THEN OccursAt(re, path, 1)
    ELSE \E at \in 1..Len(path) : OccursAt(re, path, at)

\* RegexSet::is_match: some regex of the set matches
IsMatch(set, path) == \E re \in set : RegexIsMatch(re, path)

\* Path::join: an absolute argument replaces the base
PathJoin(base, path) ==
    IF path # <<>> /\ Head(path) = "/" THEN path ELSE base \o path

\* the filter with exclude taking precedence
DirAllowed_excludewins(filter, strdir) ==
    IsMatch(filter.dir_include, strdir) /\ ~IsMatch(filter.dir_exclude, strdir)

\* let allow = filter.dir_include.is_match(&strdir)
\*     || !filter.dir_exclude.is_match(&strdir);
DirAllowed(filter, strdir) ==
    IsMatch(filter.dir_include, strdir) \/ ~IsMatch(filter.dir_exclude, strdir)

\* unit.comp_dir ... .unwrap_or(".")
CompDir(unit) == IF unit.comp_dir = <<>> THEN <<".">> ELSE unit.comp_dir[1]

\* allowed_dirs: Vec<(String, bool)>, indexed by the directory index
AllowedDirs(filter, unit) ==
    [i \in 1..Len(unit.dirs) |->
        LET strdir == PathJoin(CompDir(unit), unit.dirs[i])
        IN  <<strdir, DirAllowed(filter, strdir)>>]

\* the rows loop of one unit: a Location for each row that is_stmt and whose
\* directory is allowed, in row order
RECURSIVE RowLocations(_, _, _)
RowLocations(rows, allowed_dirs, obj) ==
    IF rows = <<>> THEN <<>>
    ELSE LET row == Head(rows)
             rest == RowLocations(Tail(rows), allowed_dirs, obj)
         IN  IF ~row.is_stmt THEN rest
             ELSE IF ~allowed_dirs[row.directory_index + 1][2] THEN rest
             ELSE <<[srcpath |-> <<allowed_dirs[row.directory_index + 1][1],
                                   row.path_name>>,
                     line |-> IF row.line = <<>> THEN 0 ELSE row.line[1],
                     addr |-> row.address + obj.addr,
                     replaced |-> <<>>]>> \o rest

\* --include-dir / --exclude-dir as given on the command line
Filters ==
    {[dir_include |-> {}, dir_exclude |-> {}],
     [dir_include |-> {[anchored |-> TRUE, comps |-> <<"/", "home", "me", "src">>]},
      dir_exclude |-> {[anchored |-> FALSE, comps |-> <<"vendor">>]}],
     [dir_include |-> {},
      dir_exclude |-> {[anchored |-> FALSE, comps |-> <<"vendor">>],
                       [anchored |-> TRUE, comps |-> <<"/", "usr">>]}],
     [dir_include |-> {[anchored |-> FALSE, comps |-> <<"a">>]},
      dir_exclude |-> {[anchored |-> TRUE, comps |-> <<"/">>]}]}

\* the units load_debug's Context may hold: one of the program's own code
\* with a vendored and a system directory, rows out of address order and one
\* that is no statement; one without DW_AT_comp_dir; one without a line
\* program; one whose directory string cannot be read
Units ==
    {[comp_dir |-> <<<<"/", "home", "me", "src">>>>, line_program |-> TRUE,
      readable |-> TRUE,
      dirs |-> <<<<>>, <<"vendor", "a">>, <<"/", "usr", "include">>>>,
      rows |-> <<[address |-> 16, is_stmt |-> TRUE, directory_index |-> 0,
                  path_name |-> "main.rs", line |-> <<3>>],
                 [address |-> 20, is_stmt |-> FALSE, directory_index |-> 0,
                  path_name |-> "main.rs", line |-> <<3>>],
                 [address |-> 32, is_stmt |-> TRUE, directory_index |-> 1,
                  path_name |-> "a.rs", line |-> <<>>],
                 [address |-> 8, is_stmt |-> TRUE, directory_index |-> 2,
                  path_name |-> "stdio.h", line |-> <<40>>]>>],
     [comp_dir |-> <<>>, line_program |-> TRUE, readable |-> TRUE,
      dirs |-> <<<<"vendor">>, <<"/", "home", "me", "other">>>>,
      rows |-> <<[address |-> 64, is_stmt |-> TRUE, directory_index |-> 1,
                  path_name |-> "b.rs", line |-> <<9>>],
                 [address |-> 64, is_stmt |-> TRUE, directory_index |-> 0,
                  path_name |-> "v.rs", line |-> <<1>>]>>],
     [comp_dir |-> <<<<"/", "home", "me", "src">>>>, line_program |-> FALSE,
      readable |-> TRUE, dirs |-> <<>>, rows |-> <<>>],
     [comp_dir |-> <<<<"/", "tmp">>>>, line_program |-> TRUE, readable |-> FALSE,
      dirs |-> <<<<"x">>>>,
      rows |-> <<[address |-> 4, is_stmt |-> TRUE, directory_index |-> 0,
                  path_name |-> "x.rs", line |-> <<1>>]>>]}

\* obj.addr: the load bias the agent reported
LoadBiases == {0, 8192}

LinesInit ==
    /\ gbIn \in {<<[obj |-> [addr |-> addr], filter |-> f, units |-> us]>> :
                    addr \in LoadBiases, f \in Filters,
                    us \in SeqsUpTo(Units, MaxUnits)}
    /\ gbUnits = gbIn[1].units
    /\ locations = <<>>
    /\ gbPc = "units"
    /\ ExtIdle
    /\ UnitIdle
    /\ RaceIdle
    /\ MainIdle
    /\ DbgIdle
    /\ ProcIdle
    /\ ProtoIdle
    /\ SpanIdle
    /\ PatchIdle

\* one turn of for unit in ctxt.units(): a unit without a line program adds
\* nothing; a directory string that cannot be read returns the error
GetBreakpointsUnit ==
    /\ gbPc = "units"
    /\ gbUnits # <<>>
    /\ LET unit == Head(gbUnits)
       IN  IF ~unit.line_program
           THEN UNCHANGED <<locations, gbPc>>
           ELSE IF ~unit.readable
           THEN /\ gbPc' = "err"
                /\ UNCHANGED locations
           ELSE /\ locations' = locations \o
                      RowLocations(unit.rows, AllowedDirs(gbIn[1].filter, unit),
                                   gbIn[1].obj)
                /\ UNCHANGED gbPc
    /\ gbUnits' = Tail(gbUnits)
    /\ UNCHANGED <<gbIn, extVars, unitVars, thr, mainVars, dbgVars, procVars,
                   protoVars, spanVars, patchVars>>

\* Ok(locations)
GetBreakpointsReturn ==
    /\ gbPc = "units"
    /\ gbUnits = <<>>
    /\ gbPc' = "returned"
    /\ UNCHANGED <<gbIn, gbUnits, locations, extVars, unitVars, thr, mainVars,
                   dbgVars, procVars, protoVars, spanVars, patchVars>>

LinesNext == GetBreakpointsUnit \/ GetBreakpointsReturn

SpecLines == LinesInit /\ [][LinesNext]_vars

----------------------------------------------------------------------------
(* lib.rs: set_breakpoints on two threads of one tracee (SpecRace) *)

\* the threads in send_phdrs' loop, each on its own connection: the
\* initializer's and a dlopen's, or those of two dlopen calls
Threads == {1, 2}

\* the non-empty request each thread has read from its connection
RaceRequests == {<<100>>, <<4000, 100>>, <<5000>>, <<4000, 5000>>}

RaceInit ==
    /\ thr \in [Threads -> {[pc |-> "entry", breakpoints |-> b, spans |-> <<>>,
                             cur |-> <<>>, todo |-> <<>>, res |-> <<>>,
                             made |-> FALSE] : b \in RaceRequests}]
    /\ mem = [a \in PatchAddrs |-> 85]
    /\ mem0 = mem
    /\ prot = [p \in PatchPages |-> "rx"]
    /\ breakpoints = <<>>
    /\ spans = <<>>
    /\ cur = <<>>
    /\ todo = <<>>
    /\ res = <<>>
    /\ patchPc = "idle"
    /\ ExtIdle
    /\ UnitIdle
    /\ LineIdle
    /\ MainIdle
    /\ DbgIdle
    /\ ProcIdle
    /\ ProtoIdle
    /\ SpanIdle

\* a fault in one thread ends the process, its other threads with it
ProcessAlive == \A t \in Threads : thr[t].pc # "segv"

RaceFrame ==
    UNCHANGED <<breakpoints, spans, cur, todo, res, mem0, patchPc, extVars,
                unitVars, lineVars, mainVars, dbgVars, procVars, protoVars, spanVars>>

\* breakpoints.sort(); the spans iterator; let mut res = Vec::new()
RaceSort(t) ==
    /\ ProcessAlive
    /\ thr[t].pc = "entry"
    /\ thr' = [thr EXCEPT ![t].spans = CoalesceAll(VecSort(thr[t].breakpoints)),
                          ![t].pc = "loop"]
    /\ UNCHANGED <<mem, prot>>
    /\ RaceFrame

\* mprotect(span.start, span.len, PROT_WRITE): no lock is taken around the
\* span's patching, and the protection is the page's, not the thread's
RaceMakeWritable(t) ==
    /\ ProcessAlive
    /\ thr[t].pc = "loop"
    /\ thr[t].spans # <<>>
    /\ \E ok \in BOOLEAN :
          /\ prot' = Mprotect(prot, Head(thr[t].spans), "w", ok)
          /\ thr' = [thr EXCEPT ![t].cur = <<Head(thr[t].spans)>>,
                                ![t].spans = Tail(thr[t].spans),
                                ![t].todo = Head(thr[t].spans).addrs,
                                ![t].made = ok,
                                ![t].pc = "write"]
    /\ UNCHANGED mem
    /\ RaceFrame

\* mem::replace(inst, BREAKPOINT); res.push((addr, old)): the store faults
\* when the page is not writable at that moment
RaceWrite(t) ==
    /\ ProcessAlive
    /\ thr[t].pc = "write"
    /\ thr[t].todo # <<>>
    /\ LET addr == Head(thr[t].todo)
       IN  IF prot[PageStart(addr)] = "w"
           THEN /\ thr' = [thr EXCEPT ![t].res = Append(@, <<addr, mem[addr]>>),
                                      ![t].todo = Tail(@)]
                /\ mem' = [mem EXCEPT ![addr] = BREAKPOINT]
           ELSE /\ thr' = [thr EXCEPT ![t].pc = "segv"]
                /\ UNCHANGED mem
    /\ UNCHANGED prot
    /\ RaceFrame

\* mprotect(span.start, span.len, PROT_READ | PROT_EXEC)
RaceRestore(t) ==
    /\ ProcessAlive
    /\ thr[t].pc = "write"
    /\ thr[t].todo = <<>>
    /\ \E ok \in BOOLEAN : prot' = Mprotect(prot, thr[t].cur[1], "rx", ok)
    /\ thr' = [thr EXCEPT ![t].cur = <<>>, ![t].made = FALSE, ![t].pc = "loop"]
    /\ UNCHANGED mem
    /\ RaceFrame

\* SetBreakpointsResp { set: res }
RaceReturn(t) ==
    /\ ProcessAlive
    /\ thr[t].pc = "loop"
    /\ thr[t].spans = <<>>
    /\ thr' = [thr EXCEPT ![t].pc = "returned"]
    /\ UNCHANGED <<mem, prot>>
    /\ RaceFrame

RaceNext ==
    \E t \in Threads :
        \/ RaceSort(t)
        \/ RaceMakeWritable(t)
        \/ RaceWrite(t)
        \/ RaceRestore(t)
        \/ RaceReturn(t)

SpecRace == RaceInit /\ [][RaceNext]_vars

----------------------------------------------------------------------------
(* Properties of the coalesced spans (SpecSpan) *)

\* every span the coalescer has produced: those yielded and the one held
AllSpans == out \o last

RECURSIVE FlattenAddrs(_)
FlattenAddrs(ss) ==
    IF ss = <<>> THEN <<>> ELSE Head(ss).addrs \o FlattenAddrs(Tail(ss))

SpanDone == spanPc = "done"

\* C1: for a sorted address list, every address stored in a coalesced span's
\* addrs lies in [start, start + len) of that span.
C1_AddrsInsideSpan ==
    \A i \in 1..Len(AllSpans) :
        LET s == AllSpans[i]
        IN  \A j \in 1..Len(s.addrs) :
                s.start <= s.addrs[j] /\ s.addrs[j] < s.start + s.len

\* a finished run with a span that was stretched over more than one page and
\* holds addresses of different pages
C1_Witness ==
    /\ SpanDone
    /\ \E i \in 1..Len(out) :
          /\ out[i].len > PAGE_SIZE
          /\ \E j, k \in 1..Len(out[i].addrs) :
                PageStart(out[i].addrs[j]) # PageStart(out[i].addrs[k])

\* C2: for a sorted address list, consecutive output spans do not overlap
\* (next.start >= prev.start + prev.len) and are strictly increasing in
\* Span's derived order.
C2_NonOverlapSorted ==
    \A i \in 1..(Len(AllSpans) - 1) :
        /\ AllSpans[i + 1].start >= AllSpans[i].start + AllSpans[i].len
        /\ SpanLess(AllSpans[i], AllSpans[i + 1])

\* a finished run with several spans, one of them merged from several addresses
C2_Witness ==
    /\ SpanDone
    /\ Len(out) >= 2
    /\ \E i \in 1..Len(out) : Len(out[i].addrs) >= 2

\* C3: every coalesced span starts on a page boundary and its len is a
\* positive multiple of the page size.
C3_PageAligned ==
    \A i \in 1..Len(AllSpans) :
        /\ AllSpans[i].start % PAGE_SIZE = 0
        /\ AllSpans[i].len > 0
        /\ AllSpans[i].len % PAGE_SIZE = 0

\* a finished run with a span away from address 0 that is longer than a page
C3_Witness ==
    /\ SpanDone
    /\ \E i \in 1..Len(out) : out[i].start > 0 /\ out[i].len >= 2 * PAGE_SIZE

\* C4: coalescing preserves the addresses: the addrs of the spans, in output
\* order, followed by what is still to come, are the input list; at the end
\* the addrs of the output spans concatenated are exactly the input.
C4_AddrsPreserved ==
    /\ spanPc = "run" => FlattenAddrs(AllSpans) \o iter = input
    /\ SpanDone => FlattenAddrs(out) = input

\* a finished run on a list with a repeated address that ends in two spans
C4_Witness ==
    /\ SpanDone
    /\ Len(input) = 3
    /\ input[1] = input[2]
    /\ Len(out) = 2

\* the merge rule at one pull of the coalescer: cur held, a next
C5_MergeRule ==
    (spanPc = "run" /\ last # <<>> /\ iter # <<>> /\ iter' = Tail(iter)) =>
        LET a == Head(iter)
            c == last[1]
        IN  IF PageStart(a) <= c.start + c.len
            THEN /\ out' = out
                 /\ last' = <<[start |-> c.start,
                               len |-> PageStart(a) + PAGE_SIZE - c.start,
                               addrs |-> Append(c.addrs, a)]>>
            ELSE /\ out' = Append(out, c)
                 /\ last' = <<[start |-> PageStart(a), len |-> PAGE_SIZE,
                               addrs |-> <<a>>]>>

C5_Examples ==
    SpanDone =>
        /\ input = <<100, 200, 300>> =>
              out = <<[start |-> 0, len |-> 4096, addrs |-> <<100, 200, 300>>]>>
        /\ input = <<4000, 5000>> =>
              out = <<[start |-> 0, len |-> 8192, addrs |-> <<4000, 5000>>]>>
        /\ input = <<10000, 20000, 30000>> =>
              out = <<[start |-> 8192, len |-> 4096, addrs |-> <<10000>>],
                      [start |-> 16384, len |-> 4096, addrs |-> <<20000>>],
                      [start |-> 28672, len |-> 4096, addrs |-> <<30000>>]>>

\* C5: the next address's span is merged into the current span exactly when
\* its page start is <= current start + len, otherwise a new span is started;
\* [100,200,300], [4000,5000] and [10000,20000,30000] coalesce as span.rs's
\* tests say.
C5_MergeWithinOnePage == [][C5_MergeRule]_vars /\ []C5_Examples

\* the run on [4000, 5000] has ended with the one two-page span
C5_Witness ==
    /\ SpanDone
    /\ input = <<4000, 5000>>
    /\ out = <<[start |-> 0, len |-> 8192, addrs |-> <<4000, 5000>>]>>

\* the step-wise adaptor and the one-go computation agree
CoalesceAgrees == SpanDone => out = CoalesceAll(input)

----------------------------------------------------------------------------
(* Properties of set_breakpoints (SpecPatch) *)

Returned == patchPc = "returned"

\* the addresses of the response, in response order
ResAddrs == [i \in 1..Len(res) |-> res[i][1]]

Occurrences(s, x) == Cardinality({i \in 1..Len(s) : s[i] = x})

\* C6 (as amended): the response of a serviced request lists one (address,
\* replaced byte) pair per requested address occurrence, the addresses in
\* ascending order; that is the request's order when the request is sorted.
C6_RespAscendingPerRequest ==
    Returned =>
        /\ Len(res) = Len(breakpoints)
        /\ \A a \in PatchAddrs :
              Occurrences(ResAddrs, a) = Occurrences(breakpoints, a)
        /\ IsSorted(ResAddrs)
        /\ IsSorted(breakpoints) => ResAddrs = breakpoints

\* a three-address request that was not sorted has been answered
C6_Witness ==
    /\ Returned
    /\ ~IsSorted(breakpoints)
    /\ Len(res) = 3

\* C6 (as stated): the response lists the requested addresses in the order in
\* which they appear in the request.
C6_RespInRequestOrder ==
    Returned => (Len(res) = Len(breakpoints) /\ ResAddrs = breakpoints)

\* writing the returned bytes back to their addresses, in response order
RECURSIVE WriteBack(_, _)
WriteBack(m, r) ==
    IF r = <<>> THEN m
    ELSE WriteBack([m EXCEPT ![Head(r)[1]] = Head(r)[2]], Tail(r))

\* C7: for a request sorted ascending (repeats allowed), set_breakpoints
\* leaves 0xCC at every listed address, returns for each address the byte that
\* was there before the call, and writing the returned bytes back in response
\* order restores the buffer.
C7_PatchRoundTrip ==
    (Returned /\ IsSorted(breakpoints)) =>
        /\ \A i \in 1..Len(breakpoints) : mem[breakpoints[i]] = BREAKPOINT
        /\ \A i \in 1..Len(res) : res[i][2] = mem0[res[i][1]]
        /\ WriteBack(mem, res) = mem0

\* the same round trip for sorted requests that name no address twice
PatchRoundTripNoRepeats ==
    (Returned /\ IsSorted(breakpoints)
       /\ \A a \in PatchAddrs : Occurrences(breakpoints, a) <= 1) =>
        /\ \A i \in 1..Len(breakpoints) : mem[breakpoints[i]] = BREAKPOINT
        /\ \A i \in 1..Len(res) : res[i][2] = mem0[res[i][1]]
        /\ WriteBack(mem, res) = mem0

\* C8: whenever the patch loop is done with a span, and once set_breakpoints
\* has returned, every page is readable and executable again, also when a
\* protection change failed.
C8_PagesExecutableAgain ==
    patchPc \in {"loop", "returned"} => \A p \in PatchPages : prot[p] = "rx"

\* C9: no address the agent patches lies within a code segment of the
\* injected agent library.
C9_NeverPatchesOwnCode ==
    \A i \in 1..Len(res) : ~InAgentCode(res[i][1])

----------------------------------------------------------------------------
(* Properties of the dialog (SpecProto) *)

FromAgent(m) == m.from = "agent"

\* C10: on every connection the first message is the agent's object snapshot:
\* the agent has read nothing before its snapshot is on the connection, and
\* the controller serializes and writes no SetBreakpointsReq on a connection
\* whose snapshot it has not decoded.
C10_SnapshotFirst ==
    /\ \A c \in Calls :
          /\ wire[c] # <<>> =>
                (FromAgent(wire[c][1]) /\ wire[c][1].type = "ObjectInfo")
          /\ aRead[c] > 0 =>
                (wire[c] # <<>> /\ FromAgent(wire[c][1]) /\ aBuf[c] = <<>>)
          /\ (\E i \in 1..Len(wire[c]) : ~FromAgent(wire[c][i])) => c \in decoded
    /\ cBuf # <<>> => cConn \in decoded

\* a dlopen's connection has carried the snapshot and then the empty request,
\* and the agent has left its loop
C10_Witness ==
    \E c \in Calls :
        /\ c >= 2
        /\ Len(wire[c]) = 2
        /\ wire[c][1].type = "ObjectInfo"
        /\ Len(wire[c][1].body) = 3
        /\ wire[c][2] = EmptyReq
        /\ aPc[c] = "done"

----------------------------------------------------------------------------
(* Properties of the service loop (SpecAgent) *)

\* the requests the agent has deserialized, in order
ReqsRead(c) == SubSeq(FromPeer(c), 1, aRead[c])

NonEmptyRead(c) == SelectSeq(ReqsRead(c), LAMBDA m : m.body # <<>>)

\* the responses the agent has flushed
RespsSent(c) ==
    SelectSeq(wire[c], LAMBDA m : m.from = "agent" /\ m.type = "SetBreakpointsResp")

RespsIn(s) ==
    Len(SelectSeq(s, LAMBDA m : m.from = "agent" /\ m.type = "SetBreakpointsResp"))

NonEmptyReqsIn(s) ==
    Len(SelectSeq(s, LAMBDA m : m.from = "controller" /\ m.body # <<>>))

\* C11: on a connection the agent has sent exactly one SetBreakpointsResp for
\* each non-empty SetBreakpointsReq it has read whenever it is about to read
\* the next request or has left the loop, and never more than one ahead or
\* behind in between; the k-th response carries the addresses of the k-th
\* non-empty request and is on the wire after it; only the last request read
\* can be empty, and once it is the call is over with nothing left to write.
C11_OneRespPerRequest ==
    \A c \in Calls :
        LET n == Len(NonEmptyRead(c))
            r == Len(RespsSent(c))
            nr == aRead[c]
        IN  /\ r <= n
            /\ n <= r + 1
            /\ aPc[c] \in {"loop", "done"} => r = n
            /\ \A k \in 1..r :
                  LET req == NonEmptyRead(c)[k].body
                      resp == RespsSent(c)[k].body
                  IN  /\ Len(resp) = Len(req)
                      /\ {resp[i][1] : i \in 1..Len(resp)}
                            = {req[i] : i \in 1..Len(req)}
            /\ \A j \in 0..Len(wire[c]) :
                  RespsIn(SubSeq(wire[c], 1, j)) <= NonEmptyReqsIn(SubSeq(wire[c], 1, j))
            /\ \A k \in 1..nr-1 : ReqsRead(c)[k].body # <<>>
            /\ (nr >= 1 /\ ReqsRead(c)[nr].body = <<>>)
                  <=> aPc[c] = "done"
            /\ aPc[c] = "done" => aBuf[c] = <<>>

\* two non-empty requests answered, then the empty one read
C11_Witness ==
    /\ aPc[1] = "done"
    /\ Len(RespsSent(1)) = 2
    /\ aRead[1] = 3

----------------------------------------------------------------------------
(* Properties of the dialog's end (SpecProto) *)

\* the agent's snapshot has gone out on connection c
SnapshotSent(c) == wire[c] # <<>> /\ wire[c][1].from = "agent"

\* the empty requests the controller has sent on connection c
EmptyReqsSent(c) == Len(SelectSeq(wire[c], LAMBDA m : m = EmptyReq))

\* both ends wait for the other to write
BothReading(c) ==
    /\ aPc[c] = "loop"
    /\ c2a[c] = <<>>
    /\ cPc = "decode"
    /\ cConn = c
    /\ a2c[c] = <<>>

\* nothing can happen any more
Quiescent == ~ENABLED ProtoNext

\* each dialog that began has ended: one empty request sent, the agent out of
\* its loop
DialogsEnded ==
    \A c \in Calls :
        SnapshotSent(c) => EmptyReqsSent(c) = 1 /\ aPc[c] \notin {"flush", "loop", "patch"}

\* C12: no connection has both ends blocked reading, and when nothing more
\* can happen every connection on which the agent sent its snapshot has been
\* sent one empty SetBreakpointsReq and its agent has left the service loop.
C12_DialogTerminates ==
    /\ \A c \in Calls : ~BothReading(c)
    /\ Quiescent => DialogsEnded

\* the same with the controller's panics set aside: the dialogs end as long
\* as try_main is still there
DialogTerminatesUnlessPanic ==
    /\ \A c \in Calls : ~BothReading(c)
    /\ (Quiescent /\ cPc # "panic") => DialogsEnded

----------------------------------------------------------------------------
(* A dynamic load after the first dialog has ended (SpecProto) *)

\* call c is send_phdrs called from a dlopen that loaded its object, made
\* after a call of the same image had left its loop on an empty request
LateLoad(c) ==
    /\ aHist[c].kind = "dlopen"
    /\ aHist[c].dl = "loaded"
    /\ aHist[c].afterDone

\* the paths a snapshot message reports
PathsOf(m) == {m.body[i].path : i \in 1..Len(m.body)}

\* C13 as stated: the report of a dynamic load made after the agent left its
\* service loop is discarded: nothing of it reaches the controller and the
\* agent neither waits for nor services a request.
C13_LateReportDiscarded ==
    \A c \in Calls :
        LateLoad(c) =>
            /\ wire[c] = <<>>
            /\ c \notin decoded
            /\ aPc[c] \notin {"loop", "patch"}
            /\ aRead[c] = 0

\* C13, amended: such a load reports on a connection of its own. What it
\* sends there is first the full snapshot, the new object included; what the
\* controller has decoded of it is in objseen; the call ends on an empty
\* request only, after the controller decoded the report; and a connection
\* whose call has ended carries the snapshot and the empty request and
\* nothing after them.
C13_LateReportOnNewConnection ==
    /\ \A c \in Calls :
          LateLoad(c) =>
              /\ SnapshotSent(c) =>
                    /\ wire[c][1].type = "ObjectInfo"
                    /\ PathsOf(wire[c][1]) =
                          {StartObjects[i] : i \in 1..Len(StartObjects)} \cup {PluginObject}
              /\ c \in decoded =>
                    \A i \in 1..Len(wire[c][1].body) :
                        <<wire[c][1].body[i].pid, wire[c][1].body[i].path>> \in objseen
              /\ aPc[c] = "done" =>
                    /\ c \in decoded
                    /\ aRead[c] = 1
                    /\ Len(wire[c]) = 2
                    /\ wire[c][2] = EmptyReq
    /\ \A d \in Calls : aPc[d] = "done" => Len(wire[d]) = 2

\* a late load's report decoded by the controller and its dialog ended
C13_Witness ==
    \E c \in Calls :
        /\ LateLoad(c)
        /\ c \in decoded
        /\ aPc[c] = "done"
        /\ <<aPid[c], PluginObject>> \in objseen

----------------------------------------------------------------------------
(* The agent without an endpoint (SpecProto) *)

\* call c found RUSKCOV_INJECT_SOCK unset or could not connect, or was made
\* with the variable unset and never got as far as looking
NoEndpoint(c) ==
    /\ c <= nCalls
    /\ ~envSet \/ aHist[c].conn = "refused"

\* C14: a call with no endpoint sends no message, patches no memory, does
\* not end the tracee, and when it is a dlopen it returns what the real
\* dlopen returned.
C14_NoOpWithoutEndpoint ==
    \A c \in Calls :
        NoEndpoint(c) =>
            /\ wire[c] = <<>>
            /\ aBuf[c] = <<>>
            /\ c \notin {pending[i] : i \in 1..Len(pending)}
            /\ patchPc = "idle"
            /\ aPc[c] # "dead"
            /\ aHist[c].kind = "dlopen" => aHist[c].dl \in {"null", "loaded"}

\* what send_phdrs itself keeps of it: wherever dlopen got to the real
\* dlopen's result, or the call is the initializer's, no message, no patch
\* and no failure
SendPhdrsNoOpWithoutEndpoint ==
    \A c \in Calls :
        (NoEndpoint(c) /\ aHist[c].dl \in {"none", "null", "loaded"}) =>
            /\ wire[c] = <<>>
            /\ aBuf[c] = <<>>
            /\ c \notin {pending[i] : i \in 1..Len(pending)}
            /\ patchPc = "idle"
            /\ aPc[c] \in {"start", "off", "gone"}
                 \/ (aPc[c] = "dead" /\ \E d \in Calls : aHist[d].dl = "crash")

----------------------------------------------------------------------------
(* One get_breakpoints call per object (SpecProto) *)

\* the (pid, path) pairs of a snapshot message
KeysOf(m) == {<<m.body[i].pid, m.body[i].path>> : i \in 1..Len(m.body)}

\* the pairs reported in the snapshots the controller has decoded
Reported == UNION {KeysOf(wire[c][1]) : c \in decoded}

\* C15: get_breakpoints has been called exactly once for each (pid, path)
\* reported in a decoded snapshot, whether the call returned Ok or Err, and
\* for nothing else: the calls made have pairwise different keys and their
\* keys are the reported ones, so the same path under two pids is two calls.
C15_ParsedOncePerObject ==
    /\ \A i, j \in 1..Len(parsed) : i # j => parsed[i].key # parsed[j].key
    /\ {parsed[i].key : i \in 1..Len(parsed)} = Reported
    /\ objseen = Reported

\* the plugin of the primary reported in two decoded snapshots, its one parse
\* failed, and a.out parsed for both pids
C15_Witness ==
    /\ \E c, d \in decoded :
          /\ c # d
          /\ <<PrimaryPid, PluginObject>> \in KeysOf(wire[c][1]) \cap KeysOf(wire[d][1])
    /\ \E i \in 1..Len(parsed) :
          parsed[i] = [key |-> <<PrimaryPid, PluginObject>>, ok |-> FALSE]
    /\ \E i, j \in 1..Len(parsed) :
          /\ parsed[i].key = <<PrimaryPid, "a.out">>
          /\ parsed[j].key = <<8, "a.out">>

----------------------------------------------------------------------------
(* Errors on a connection (SpecProto) *)

\* C16: an error on one connection leaves try_main in its accept loop (no
\* panic, no exit), and no tracee is ended by it: a tracee that died did so
\* in a dlopen of its own.
C16_ConnectionErrorsContained ==
    /\ cPc \in {"accept", "decode", "serialize", "flush"}
    /\ exitCode = -1
    /\ \A pid \in Pids :
          procState[pid] = "dead" =>
              \E c \in Calls : aPid[c] = pid /\ aHist[c].dl = "crash"

----------------------------------------------------------------------------
(* The controller's end (SpecMain) *)

\* every tracee process there was has ended
TraceeGone ==
    /\ procState[PrimaryPid] \in {"dead", "exited"}
    /\ \A pid \in Pids : procState[pid] # "running"

\* nothing can happen any more
MainQuiescent == ~ENABLED MainNext

\* C17: when the tracee has ended and nothing is left to read or to do,
\* try_main has left its accept loop and returned.
C17_ControllerTerminates ==
    (TraceeGone /\ MainQuiescent) => cPc = "exited"

\* C18: a failed startup step ends the process with a diagnostic and a status
\* other than zero, and a process that ended with status zero had no failure
\* to report.
C18_StartupFailureExitsNonZero ==
    /\ \A ctx \in StartupErrors :
          diag = <<ctx>> => cPc = "exited" /\ exitCode > 0
    /\ exitCode = 0 => diag = <<>>

----------------------------------------------------------------------------
(* The debug-link gate (SpecDebug) *)

\* the object is read and declares a debug-link, and the first candidate
\* that opens can be read, has the declared CRC32 and parses
LinkUsable(in) ==
    /\ in.obj.parses
    /\ in.obj.link # <<>>
    /\ LET k == FirstOpen(in.cands)
       IN  /\ k # 0
           /\ in.cands[k].maps
           /\ ChecksumIeee(in.cands[k].bytes) = in.obj.link[1].crc
           /\ in.cands[k].parses

\* the same object with nothing at any candidate path
NoCandidates(in) ==
    [in EXCEPT !.cands = [i \in 1..NumPaths |->
        [opens |-> FALSE, maps |-> FALSE, bytes |-> "", parses |-> FALSE, ctx |-> FALSE]]]

\* C19: load_debug takes the sections of the separate debug file exactly
\* when the link is usable; otherwise its result is what it would be with no
\* candidate file at all: the primary object's sections, and no failure that
\* the primary alone would not give.
C19_DebugLinkGating ==
    dbgOut # <<>> =>
        /\ dbgOut[1].sections = "link" <=> LinkUsable(dbgIn)
        /\ ~LinkUsable(dbgIn) => dbgOut[1] = LoadDebug(NoCandidates(dbgIn))

\* the gate where the first candidate that opens, if any, can be mapped
DebugLinkGatingMappable ==
    (dbgOut # <<>> /\ (FirstOpen(dbgIn.cands) # 0 => dbgIn.cands[FirstOpen(dbgIn.cands)].maps)) =>
        /\ dbgOut[1].sections = "link" <=> LinkUsable(dbgIn)
        /\ ~LinkUsable(dbgIn) => dbgOut[1] = LoadDebug(NoCandidates(dbgIn))

----------------------------------------------------------------------------
(* Threads and their address space (SpecProcess) *)

\* what a Process observes through its addrspace
Observed(i) == heap[procs[i].addrspace]

\* the step appends a Process made by new_thread
NewThreadStep ==
    /\ Len(procs') = Len(procs) + 1
    /\ procHist'[Len(procs')].parent # 0

\* C20: a Process made by new_thread has the pid it was given and state
\* Running; as long as neither it nor its parent has exec'd it holds the
\* very AddressSpace its parent holds, so the two observe the same
\* breakpoints and segments; and the call leaves every existing Process and
\* every AddressSpace as they were.
C20_ThreadSharesAddressSpace ==
    /\ [](\A i \in 1..Len(procs) :
            procHist[i].parent # 0 =>
                /\ procs[i].pid = procHist[i].pid
                /\ procs[i].state = "Running"
                /\ procHist[i].shares =>
                      /\ procs[i].addrspace = procs[procHist[i].parent].addrspace
                      /\ Observed(i) = Observed(procHist[i].parent))
    /\ [][NewThreadStep =>
            /\ heap' = heap
            /\ \A j \in 1..Len(procs) : procs'[j] = procs[j]]_vars

\* a thread still sharing breakpoints with its parent while another thread
\* of that parent has exec'd
C20_Witness ==
    \E i, k \in 1..Len(procs) :
        /\ i # k
        /\ procHist[i].parent # 0
        /\ procHist[k].parent = procHist[i].parent
        /\ procHist[i].shares
        /\ procHist[k].execd
        /\ DOMAIN Observed(i).breakpoints # {}
        /\ procs[i].pid # procs[procHist[i].parent].pid

----------------------------------------------------------------------------
(* exec and the address spaces (SpecProcess) *)

\* the (base, len) pairs of an AddressSpace's segments
SegPairs(as) == {<<b, as.segments[b]>> : b \in DOMAIN as.segments}

\* the step is an exec of procs[i]
ExecStep(i) ==
    /\ Len(procs') = Len(procs)
    /\ i \in 1..Len(procs)
    /\ procs'[i].addrspace # procs[i].addrspace

\* what exec leaves alone: pid and state of the Process, every other Process,
\* every AddressSpace there was
ExecFrame ==
    \A i \in 1..MaxProcs :
        ExecStep(i) =>
            /\ procs'[i].pid = procs[i].pid
            /\ procs'[i].state = procs[i].state
            /\ \A j \in 1..Len(procs) : j # i => procs'[j] = procs[j]
            /\ \A id \in 1..Len(heap) : heap'[id] = heap[id]

\* C21 as stated: a Process that has exec'd holds no breakpoints and exactly
\* the segments last given to exec, and exec changes nothing else.
C21_ExecExactSegments ==
    /\ [](\A i \in 1..Len(procs) :
            procHist[i].execd =>
                /\ DOMAIN Observed(i).breakpoints = {}
                /\ SegPairs(Observed(i)) =
                      {procHist[i].given[k] : k \in 1..Len(procHist[i].given)})
    /\ [][ExecFrame]_vars

\* C21, amended: a Process that has exec'd holds no breakpoints and one
\* segment for each base address last given to exec, with the length given
\* last for that base; exec leaves the Process's pid and state, every other
\* Process and every AddressSpace there was as they were.
C21_ExecReplacesAddressSpace ==
    /\ [](\A i \in 1..Len(procs) :
            procHist[i].execd =>
                /\ DOMAIN Observed(i).breakpoints = {}
                /\ DOMAIN Observed(i).segments =
                      {procHist[i].given[k][1] : k \in 1..Len(procHist[i].given)}
                /\ \A k \in 1..Len(procHist[i].given) :
                      (\A m \in k+1..Len(procHist[i].given) :
                            procHist[i].given[m][1] # procHist[i].given[k][1])
                        => Observed(i).segments[procHist[i].given[k][1]]
                              = procHist[i].given[k][2])
    /\ [][ExecFrame]_vars

\* a Process that held breakpoints has exec'd with a list that names a base
\* twice, while a thread made from it keeps the breakpoints
C21_Witness ==
    \E i, j \in 1..Len(procs) :
        /\ procHist[i].execd
        /\ Len(procHist[i].given) = 2
        /\ Cardinality(DOMAIN Observed(i).segments) = 1
        /\ procHist[j].parent = i
        /\ DOMAIN Observed(j).breakpoints # {}

----------------------------------------------------------------------------
(* The AddressSpace invariant (SpecProcess) *)

\* the segments of as that hold address a
SegmentsHolding(as, a) ==
    {b \in DOMAIN as.segments : b <= a /\ a < b + as.segments[b]}

\* C22: in every AddressSpace made, each breakpoint address lies in exactly
\* one segment and no two segments overlap.
C22_AddressSpaceInvariant ==
    \A id \in 1..Len(heap) :
        /\ \A a \in DOMAIN heap[id].breakpoints :
              Cardinality(SegmentsHolding(heap[id], a)) = 1
        /\ \A b1, b2 \in DOMAIN heap[id].segments :
              b1 < b2 => b1 + heap[id].segments[b1] <= b2

----------------------------------------------------------------------------
(* C23: the wait thread and the tracee set *)

\* C23: the supervisor survives every wait status: having received one it
\* is still consuming statuses (it has not panicked), and a tracee whose
\* Exited or Signaled status it received is no longer in the tracee set
C23_SupervisorSurvives ==
    /\ supPc # "panicked"
    /\ \A k \in 1..Len(supSeen) :
          supSeen[k][1] \in {"Exited", "Signaled"} => supSeen[k][2] \notin tracees

----------------------------------------------------------------------------
(* C24: the interposed dlopen (SpecProto) *)

\* C24: every intercepted dlopen has run the real dlopen and returned its
\* result; a call whose load did not succeed made no connection and sent no
\* report; a report a dlopen sent lists every object loaded in its process
C24_DlopenForwardsThenReports ==
    \A c \in Calls :
        aHist[c].kind = "dlopen" =>
            /\ aHist[c].dl \in {"null", "loaded"}
            /\ aHist[c].dl # "loaded" => aHist[c].conn = "none" /\ wire[c] = <<>>
            /\ SnapshotSent(c) =>
                  {loaded[aPid[c]][i] : i \in 1..Len(loaded[aPid[c]])}
                      \subseteq PathsOf(wire[c][1])

----------------------------------------------------------------------------
(* C28: objects reported again after an exec (SpecProto) *)

\* the get_breakpoints calls made for key k
ParsesOf(k) == {i \in 1..Len(parsed) : parsed[i].key = k}

\* connection c carries the initializer's snapshot of an image that replaced
\* the one connection d reported from, in the same pid
PostExec(d, c) ==
    /\ d < c
    /\ aPid[c] = aPid[d]
    /\ aHist[c].kind = "ctor"

\* C28: when the controller has decoded the snapshot of a post-exec image,
\* it has computed breakpoints again for each of its objects, those whose
\* (pid, path) an earlier image of that pid had already reported included
C28_ReparsedAfterExec ==
    \A c, d \in decoded :
        PostExec(d, c) =>
            \A k \in KeysOf(wire[c][1]) \cap KeysOf(wire[d][1]) :
                Cardinality(ParsesOf(k)) >= 2

----------------------------------------------------------------------------
(* C29: the bytes set_breakpoints leaves alone (SpecPatch) *)

\* the addresses of the request
Requested == {breakpoints[i] : i \in 1..Len(breakpoints)}

\* C29: at every point of set_breakpoints, a byte whose address is not in
\* the request holds the value it had before the call, in touched spans as
\* elsewhere
C29_OnlyRequestedBytesChange ==
    \A a \in PatchAddrs : a \notin Requested => mem[a] = mem0[a]

\* the call has returned having patched 100, and 4000, in the same touched
\* page and not requested, still holds its original byte
C29_Witness ==
    /\ patchPc = "returned"
    /\ 100 \in Requested
    /\ 4000 \notin Requested
    /\ mem0[100] # BREAKPOINT
    /\ mem[100] = BREAKPOINT
    /\ mem[4000] = mem0[4000]
    /\ mem0[4000] # BREAKPOINT

----------------------------------------------------------------------------
(* C27: Span::extend and the Span invariant (SpecExtend) *)

\* the addresses a span lists
AddrsIn(span) == {span.addrs[i] : i \in 1..Len(span.addrs)}

\* what C27 asks of a call's result: Err hands both operands back unchanged,
\* Ok is a span that keeps the invariant and lists the addrs of both
ExtendKeepsInv(self, other, r) ==
    IF r.ok
    THEN /\ SpanInv(r.span)
         /\ AddrsIn(self) \cup AddrsIn(other) \subseteq AddrsIn(r.span)
    ELSE r.span = self /\ r.rest = <<other>>

\* C27 as stated: for any two spans that satisfy the invariant, extend
\* returns both unchanged or a merged span that satisfies it
C27_ExtendKeepsInvariantAlways ==
    extRes # <<>> => ExtendKeepsInv(extSelf[1], extOther[1], extRes[1])

\* C27: for two spans that satisfy the invariant, other ending no lower than
\* self, extend returns both unchanged or a merged span that satisfies the
\* invariant and lists the addrs of both
C27_ExtendKeepsInvariant ==
    (/\ extRes # <<>>
     /\ extOther[1].start + extOther[1].len >= extSelf[1].start + extSelf[1].len)
        => ExtendKeepsInv(extSelf[1], extOther[1], extRes[1])

\* a merge of two full spans that stretched self over a later page
C27_Witness ==
    /\ extRes # <<>>
    /\ extRes[1].ok
    /\ extRes[1].span.len > extSelf[1].len
    /\ extOther[1].start > extSelf[1].start
    /\ Len(extRes[1].span.addrs) = 2 * MaxSpanAddrs

----------------------------------------------------------------------------
(* C26: the unit ranges are disjoint and ordered (SpecUnits) *)

\* every range pushed has begin < end
InputNonEmpty ==
    \A i \in 1..Len(dwRanges) :
        dwRanges[i].range.begin # dwRanges[i].range.end
            => dwRanges[i].range.begin < dwRanges[i].range.end

\* C26: from_dwarf does not fail its debug_assert: in the list it leaves,
\* each entry ends no higher than the next begins; and when the ranges
\* pushed were non-empty (begin < end), every entry has begin <= end
C26_UnitRangesDisjointOrdered ==
    /\ ctxPc # "panic"
    /\ ctxPc = "built" =>
          /\ WindowsOrdered(unit_ranges)
          /\ Len(unit_ranges) = Len(PushRanges(dwRanges))
          /\ InputNonEmpty =>
                \A i \in 1..Len(unit_ranges) :
                    unit_ranges[i].range.begin <= unit_ranges[i].range.end

\* three overlapping non-empty ranges given out of order have been sorted
\* and clamped, the last cut down to nothing, and a probe found its unit
C26_Witness ==
    /\ ctxPc = "built"
    /\ InputNonEmpty
    /\ Len(unit_ranges) = MaxRanges
    /\ dwRanges[1].range.begin > dwRanges[2].range.begin
    /\ \E i \in 1..Len(unit_ranges) :
          /\ unit_ranges[i].range.begin = unit_ranges[i].range.end
          /\ unit_ranges[i].range # dwRanges[unit_ranges[i].unit + 1].range
    /\ found # <<>>
    /\ found[2] # <<>>

----------------------------------------------------------------------------
(* C25: the Locations get_breakpoints emits (SpecLines) *)

\* the (unit, row) positions of the object's line programs, in unit order and
\* row order
RowsOf(units) ==
    LET n == Len(units)
        RECURSIVE From(_)
        From(u) ==
            IF u > n THEN <<>>
            ELSE [r \in 1..Len(units[u].rows) |-> <<u, r>>] \o From(u + 1)
    IN  From(1)

\* the directory of a row, compilation directory joined with the directory
\* string, is included: the include set matches it or the exclude set does not
Included(filter, unit, row) ==
    LET d == PathJoin(CompDir(unit), unit.dirs[row.directory_index + 1])
    IN  IsMatch(filter.dir_include, d) \/ ~IsMatch(filter.dir_exclude, d)

\* the rows C25 says are emitted
EmittedRows(in) ==
    SelectSeq(RowsOf(in.units),
              LAMBDA p : LET unit == in.units[p[1]]
                             row == unit.rows[p[2]]
                         IN  row.is_stmt /\ Included(in.filter, unit, row))

\* C25: when get_breakpoints returns, its Locations are, in row order, one
\* for each row that is_stmt and whose directory is included, each with the
\* address row.address + the load bias and with replaced empty
C25_LocationsAreFilteredRows ==
    gbPc = "returned" =>
        LET in == gbIn[1]
            rows == EmittedRows(in)
        IN  /\ Len(locations) = Len(rows)
            /\ \A i \in 1..Len(rows) :
                  LET row == in.units[rows[i][1]].rows[rows[i][2]]
                  IN  /\ locations[i].addr = row.address + in.obj.addr
                      /\ locations[i].replaced = <<>>
                      /\ locations[i].srcpath[2] = row.path_name

\* a call on two units at a load bias, with a filter whose include and
\* exclude both match the vendored directory: that row is emitted, the
\* system directory's row and the non-statement row are not
C25_Witness ==
    /\ gbPc = "returned"
    /\ gbIn[1].obj.addr = 8192
    /\ Len(gbIn[1].units) = 2
    /\ \E i \in 1..Len(locations) :
          /\ locations[i].srcpath[1] = <<"/", "home", "me", "src", "vendor", "a">>
          /\ locations[i].addr = 8192 + 32
          /\ IsMatch(gbIn[1].filter.dir_exclude, locations[i].srcpath[1])
          /\ IsMatch(gbIn[1].filter.dir_include, locations[i].srcpath[1])
    /\ \A i \in 1..Len(locations) : locations[i].srcpath[2] # "stdio.h"
    /\ Len(locations) < Len(RowsOf(gbIn[1].units))

----------------------------------------------------------------------------
(* C30: two threads patching one page (SpecRace) *)

\* C30: a thread that has made its span writable finds the page of each
\* address it is about to write still writable: no other thread has put it
\* back to read+execute in between, and no write faults
C30_PageWritableAtWrite ==
    \A t \in Threads :
        /\ (thr[t].pc = "write" /\ thr[t].made /\ thr[t].todo # <<>>)
              => prot[PageStart(Head(thr[t].todo))] = "w"
        /\ (thr[t].pc = "segv" /\ thr[t].made)
              => prot[PageStart(Head(thr[t].todo))] = "w"

====
